---- MODULE Spec2Model ----
(***************************************************************************)
(* A model of auto-api-hooks' normalisation and analysis core:             *)
(*   - the circular-type analysis of the Zod emitter (detectCircularTypes) *)
(*   - the pagination detector of src/ir/helpers.ts                        *)
(*   - the OpenAPI 3.x parser and the parseSpec dispatcher, as far as the  *)
(*     pagination annotation of an operation depends on them               *)
(*                                                                         *)
(* Values of the intermediate representation are records with a `kind`     *)
(* field, as in src/ir/types.ts.  A JavaScript `undefined` is the record   *)
(* Undefined.  An insertion-ordered Set or Map of the source is a sequence *)
(* without repeated elements (keys), so that iteration order is modelled.  *)
(***************************************************************************)
EXTENDS Integers, Sequences, FiniteSets, TLC

VARIABLES
    pc,          \* which step of the scenario has run
    types,       \* ApiSpec.types: the named-type registry, <<[name, type], ...>>
    circular,    \* _circularTypes of the Zod emitter: the set detectCircularTypes(types) returned
    visitedTypes, \* visitedTypes of the graph normalizer: the names of the types in conversion
    op,          \* the ApiOperation handed to detectPagination
    detected,    \* what detectPagination(op) returned
    spec,        \* the ApiSpec handed to applyPaginationDetection
    applied,     \* what applyPaginationDetection(spec) returned
    reapplied,   \* what applyPaginationDetection(applied) returned
    doc,         \* the input handed to parseSpec
    parsed,      \* what parseSpec(doc) resolved to
    invoked,     \* the parsers whose parse was called, in call order
    arg,         \* the argument of the function under study
    result,      \* what the function under study returned for arg
    config,      \* the GenerateConfig the generate action builds from its options
    specFile,    \* the content of the spec file on disk
    outputDir,   \* the generated files on disk: path -> the spec revision it was generated from
    runs,        \* the calls of runGenerate so far, in the order they started
    watcher,     \* the chokidar watcher of startWatchMode
    process      \* the node process: running, or exited with a code

vars == <<pc, types, circular, visitedTypes, op, detected, spec, applied, reapplied, doc, parsed,
          invoked, arg, result, config, specFile, outputDir, runs, watcher, process>>

\* The state of the command line program in watch mode.
watchVars == <<config, specFile, outputDir, runs, watcher, process>>

\* JavaScript's undefined (an absent optional field, a function returning nothing).
Undefined == [undefined |-> TRUE]

\* A string or array where the source has `string | undefined` or
\* `string[] | undefined`: boxed, so that it compares with Undefined.
Some(v) == [value |-> v]

\* Placeholder of a variable a specification does not use.
Unused == [unused |-> TRUE]

NoWatch ==
    /\ config = Unused /\ specFile = Unused /\ outputDir = Unused
    /\ runs = Unused /\ watcher = Unused /\ process = Unused

Range(s) == {s[i] : i \in 1..Len(s)}

\* Sequences over S of length at most n.
SeqsUpTo(S, n) == UNION {[1..k -> S] : k \in 0..n}

\* Sequences over S of length at most n without repeated elements.
DistinctSeqsUpTo(S, n) ==
    {s \in SeqsUpTo(S, n) : \A i, j \in 1..Len(s) : i # j => s[i] # s[j]}

\* Set.prototype.add on an insertion-ordered Set.
SetAdd(s, x) == IF x \in Range(s) THEN s ELSE Append(s, x)

\* Array.prototype.indexOf, 1-based; 0 when x is absent.
IndexOf(s, x) ==
    IF x \in Range(s) THEN CHOOSE i \in 1..Len(s) : s[i] = x /\ \A j \in 1..(i - 1) : s[j] # x
    ELSE 0

(***************************************************************************)
(* Strings.  A JavaScript string is a string; Len, \o and SubSeq act on    *)
(* it as on a sequence of characters.                                      *)
(***************************************************************************)
\* String.prototype.charAt, 1-based
CharAt(str, i) == IF i >= 1 /\ i <= Len(str) THEN SubSeq(str, i, i) ELSE ""
\* String.prototype.slice(from, to) for 0 <= from, 0 <= to (0-based, to exclusive)
Slice(str, from, to) ==
    LET end == IF to < Len(str) THEN to ELSE Len(str)
    IN  IF from >= end THEN "" ELSE SubSeq(str, from + 1, end)
StartsWith(str, prefix) ==
    Len(str) >= Len(prefix) /\ SubSeq(str, 1, Len(prefix)) = prefix

RECURSIVE SplitFrom(_, _, _, _)
\* String.prototype.split(sep) for a one-character separator
SplitFrom(str, sep, i, current) ==
    IF i > Len(str) THEN <<current>>
    ELSE IF CharAt(str, i) = sep THEN <<current>> \o SplitFrom(str, sep, i + 1, "")
    ELSE SplitFrom(str, sep, i + 1, current \o CharAt(str, i))
Split(str, sep) == SplitFrom(str, sep, 1, "")

RECURSIVE Join(_, _)
\* Array.prototype.join('') from the i-th element on
Join(strs, i) == IF i > Len(strs) THEN "" ELSE strs[i] \o Join(strs, i + 1)

RECURSIVE RemoveChars(_, _, _)
\* str.replace(/[...]/g, '') for a set of characters
RemoveChars(str, chars, i) ==
    IF i > Len(str) THEN ""
    ELSE (IF CharAt(str, i) \in chars THEN "" ELSE CharAt(str, i)) \o RemoveChars(str, chars, i + 1)

LowerLetters == "abcdefghijklmnopqrstuvwxyz"
UpperLetters == "ABCDEFGHIJKLMNOPQRSTUVWXYZ"
\* String.prototype.toUpperCase on one character (ASCII letters)
UpperChar(c) ==
    IF \E i \in 1..Len(LowerLetters) : CharAt(LowerLetters, i) = c
    THEN CharAt(UpperLetters, CHOOSE i \in 1..Len(LowerLetters) : CharAt(LowerLetters, i) = c)
    ELSE c
LowerChar(c) ==
    IF \E i \in 1..Len(UpperLetters) : CharAt(UpperLetters, i) = c
    THEN CharAt(LowerLetters, CHOOSE i \in 1..Len(UpperLetters) : CharAt(UpperLetters, i) = c)
    ELSE c
RECURSIVE MapChars(_, _, _)
MapChars(str, F(_), i) == IF i > Len(str) THEN "" ELSE F(CharAt(str, i)) \o MapChars(str, F, i + 1)
ToUpperCase(str) == MapChars(str, UpperChar, 1)
ToLowerCase(str) == MapChars(str, LowerChar, 1)

(***************************************************************************)
(* IR types (src/ir/types.ts)                                              *)
(***************************************************************************)
Primitive(t) == [kind |-> "primitive", type |-> t]
Ref(n) == [kind |-> "ref", name |-> n]
Array(t) == [kind |-> "array", items |-> t]
Union(vs) == [kind |-> "union", variants |-> vs]
Enum(vs, name) == [kind |-> "enum", values |-> vs, name |-> name]
\* A property that is not required.
Property(n, t) == [name |-> n, type |-> t, required |-> FALSE]
ApiProperty(n, t, required) == [name |-> n, type |-> t, required |-> required]
\* name is Some(string) or Undefined; additionalProperties is a type,
\* Boolean(b) or Undefined.
ApiObject(props, ap, name) ==
    [kind |-> "object", properties |-> props, additionalProperties |-> ap, name |-> name]
Object(props) == ApiObject(props, Undefined, Undefined)
ObjectAP(props, ap) == ApiObject(props, ap, Undefined)
Boolean(b) == [kind |-> "boolean", value |-> b]

(***************************************************************************)
(* Circular reference detection (Zod emitter)                              *)
(***************************************************************************)

\* collectRefs(type, refs): adds to the insertion-ordered Set `refs` every ref
\* name occurring in `type`: properties, then additionalProperties when it is a
\* type (neither undefined nor a boolean), array items, union variants.
RECURSIVE collectRefs(_, _)
RECURSIVE collectRefsAll(_, _, _)
collectRefsAll(ts, i, refs) ==
    IF i > Len(ts) THEN refs
    ELSE collectRefsAll(ts, i + 1, collectRefs(ts[i], refs))

collectRefs(type, refs) ==
    CASE type.kind = "ref" -> SetAdd(refs, type.name)
      [] type.kind = "object" ->
            LET props == collectRefsAll([i \in 1..Len(type.properties) |-> type.properties[i].type], 1, refs)
                ap == type.additionalProperties
            IN  IF ap # Undefined /\ ap.kind # "boolean"
                THEN collectRefs(ap, props)
                ELSE props
      [] type.kind = "array" -> collectRefs(type.items, refs)
      [] type.kind = "union" -> collectRefsAll(type.variants, 1, refs)
      [] OTHER -> refs

\* Map.prototype.keys / has / get on the registry.
Keys(reg) == [i \in 1..Len(reg) |-> reg[i].name]
Has(reg, name) == \E i \in 1..Len(reg) : reg[i].name = name
Get(reg, name) == reg[CHOOSE i \in 1..Len(reg) : reg[i].name = name].type

\* deps: name -> the refs collected from the type of that name.
Deps(reg) == [i \in 1..Len(reg) |-> [name |-> reg[i].name, refs |-> collectRefs(reg[i].type, <<>>)]]
DepsGet(deps, name) ==
    IF \E i \in 1..Len(deps) : deps[i].name = name
    THEN deps[CHOOSE i \in 1..Len(deps) : deps[i].name = name].refs
    ELSE <<>>

\* Mutant of cycleStart: the whole current path is marked, not only its part
\* from the revisited node on.
cycleStart_WholePath(path, name) == 1

\* path.indexOf(name), the position from which the path is marked circular.
cycleStart(path, name) == IndexOf(path, name)

\* The closure dfs(name, path) of detectCircularTypes.  st holds the three Sets
\* the closure updates: circular, visited and inStack.
RECURSIVE dfs(_, _, _, _, _)
RECURSIVE dfsDeps(_, _, _, _, _, _)
dfsDeps(reg, deps, ds, i, path, st) ==
    IF i > Len(ds) THEN st
    ELSE dfsDeps(reg, deps, ds, i + 1, path,
                 IF Has(reg, ds[i]) THEN dfs(reg, deps, ds[i], path, st) ELSE st)

dfs(reg, deps, name, path, st) ==
    IF name \in st.inStack
    THEN [st EXCEPT !.circular = @ \cup {path[i] : i \in cycleStart(path, name)..Len(path)}]
    ELSE IF name \in st.visited
    THEN st
    ELSE LET entered == [st EXCEPT !.visited = @ \cup {name}, !.inStack = @ \cup {name}]
             explored == dfsDeps(reg, deps, DepsGet(deps, name), 1, Append(path, name), entered)
         IN  [explored EXCEPT !.inStack = @ \ {name}]

RECURSIVE dfsRoots(_, _, _, _)
dfsRoots(reg, deps, i, st) ==
    IF i > Len(reg) THEN st
    ELSE dfsRoots(reg, deps, i + 1, dfs(reg, deps, Keys(reg)[i], <<>>, st))

detectCircularTypes(reg) ==
    dfsRoots(reg, Deps(reg), 1, [circular |-> {}, visited |-> {}, inStack |-> {}]).circular

(***************************************************************************)
(* Registries the analysis is run on                                       *)
(***************************************************************************)
\* Number of named types in the registry.
MaxTypes == 3
\* Total number of refs to registered types in the registry, counted once per
\* referring type and target.
MaxRefs == 4

TypeNameSeq == <<"A", "B", "C", "D", "E", "F">>
RegistryNames == {TypeNameSeq[i] : i \in 1..MaxTypes}
\* A name no type is registered under.
Missing == "Missing"

\* How the refs of a named type are embedded in its structure.  In style
\* "object" they are property types, the last one the additionalProperties
\* type, and the first one occurs a second time inside an array.  In style
\* "union" they are union variants, bare or as array items, next to a ref to
\* the unregistered name; a type without refs is then an array of that ref.
Styles == {"object", "union"}

TypeWithRefs(style, refs) ==
    LET n == Len(refs) IN
    IF style = "object"
    THEN IF n = 0 THEN Enum(<<"x">>, Undefined)
         ELSE IF n = 1 THEN Object(<<Property("p1", Ref(refs[1]))>>)
         ELSE ObjectAP([i \in 1..n |->
                          IF i < n THEN Property(TypeNameSeq[i], Ref(refs[i]))
                          ELSE Property("again", Array(Ref(refs[1])))],
                       Ref(refs[n]))
    ELSE IF n = 0 THEN Array(Ref(Missing))
         ELSE Union([i \in 1..(n + 2) |->
                          IF i = 1 THEN Ref(refs[1])
                          ELSE IF i = 2 THEN Ref(Missing)
                          ELSE IF i = n + 2 THEN Ref(refs[1])
                          ELSE Array(Union(<<Primitive("null"), Ref(refs[i - 1])>>))])

\* The ref lists of the types from position i on, with `budget` refs to spend.
RECURSIVE RefLists(_, _)
RefLists(i, budget) ==
    IF i > MaxTypes THEN {<<>>}
    ELSE UNION {{<<s>> \o rest : rest \in RefLists(i + 1, budget - Len(s))}
                : s \in DistinctSeqsUpTo(RegistryNames, budget)}

Registries ==
    {[i \in 1..MaxTypes |-> [name |-> TypeNameSeq[i], type |-> TypeWithRefs(style, lists[i])]]
        : style \in Styles, lists \in RefLists(1, MaxRefs)}

InitCycle ==
    /\ pc = "start"
    /\ types \in Registries
    /\ circular = Unused /\ visitedTypes = Unused
    /\ op = Unused /\ detected = Unused
    /\ spec = Unused /\ applied = Unused /\ reapplied = Unused
    /\ doc = Unused /\ parsed = Unused
    /\ invoked = Unused /\ arg = Unused /\ result = Unused
    /\ NoWatch

\* emitZodSchemas, first step: the circular types of spec.types are computed.
DetectCircular ==
    /\ pc = "start"
    /\ circular' = detectCircularTypes(types)
    /\ pc' = "done"
    /\ UNCHANGED <<watchVars, visitedTypes, types, op, detected, spec, applied, reapplied, doc, parsed, invoked, arg, result>>

NextCycle == DetectCircular

SpecCycle == InitCycle /\ [][NextCycle]_vars

(***************************************************************************)
(* Reference cycles, defined on the registry without the DFS               *)
(***************************************************************************)
\* The ref names occurring anywhere in a type, read off its structure.
RECURSIVE RefNames(_)
RefNames(type) ==
    CASE type.kind = "ref" -> {type.name}
      [] type.kind = "object" ->
            UNION {RefNames(type.properties[i].type) : i \in 1..Len(type.properties)}
            \cup (IF type.additionalProperties # Undefined /\ type.additionalProperties.kind # "boolean"
                  THEN RefNames(type.additionalProperties) ELSE {})
      [] type.kind = "array" -> RefNames(type.items)
      [] type.kind = "union" -> UNION {RefNames(type.variants[i]) : i \in 1..Len(type.variants)}
      [] OTHER -> {}

\* n refers directly to m: some ref inside n's type names m; both registered.
RefEdge(reg, n, m) ==
    /\ Has(reg, n) /\ Has(reg, m)
    /\ m \in RefNames(Get(reg, n))

RefEdges(reg) == {e \in Range(Keys(reg)) \X Range(Keys(reg)) : RefEdge(reg, e[1], e[2])}

\* The names reachable from n in at least one ref hop.
RECURSIVE ReachFrom(_, _, _)
ReachFrom(reg, frontier, seen) ==
    LET next == {m \in Range(Keys(reg)) : \E f \in frontier : RefEdge(reg, f, m)} \ seen
    IN  IF next = {} THEN seen ELSE ReachFrom(reg, next, seen \cup next)

OnCycle(reg, n) == Has(reg, n) /\ n \in ReachFrom(reg, {n}, {})

CycleMembers(reg) == {n \in Range(Keys(reg)) : OnCycle(reg, n)}

(***************************************************************************)
(* Pagination detection (src/ir/helpers.ts)                                *)
(***************************************************************************)
\* The fixed name Sets, in their declared (iteration) order.
CURSOR_PARAM_NAMES ==
    <<"cursor", "after", "before", "page_token", "pageToken", "next_token",
      "nextToken", "starting_after", "startingAfter", "ending_before", "endingBefore">>
OFFSET_PARAM_NAMES == <<"offset", "skip">>
LIMIT_PARAM_NAMES ==
    <<"limit", "count", "size", "per_page", "perPage", "page_size", "pageSize">>
PAGE_NUMBER_PARAM_NAMES == <<"page", "page_number", "pageNumber", "p">>
CURSOR_RESPONSE_FIELDS ==
    <<"next_cursor", "nextCursor", "cursor", "next_page_token", "nextPageToken",
      "next_token", "nextToken", "endCursor", "end_cursor", "has_more", "hasMore">>
ITEMS_FIELDS ==
    <<"items", "data", "results", "records", "edges", "nodes", "entries", "list",
      "rows", "content", "hits">>
PAGE_COUNT_FIELDS ==
    <<"total_pages", "totalPages", "total_count", "totalCount", "total",
      "page_count", "pageCount", "last_page", "lastPage">>

\* Mutant of NextPageContainers: only the two names of the source's comment.
NextPageContainers_TwoNames == {"pagination", "meta"}

\* The property names under which findNextPagePath looks one level deeper.
NextPageContainers == {"pagination", "meta", "page_info", "pageInfo"}
\* The property names under which findPageCountPath looks one level deeper.
PageCountContainers == {"pagination", "meta"}

\* Array.prototype.find on a sequence of names: the first one in the set `among`
\* (boxed), or Undefined.
FindFirst(names, among) ==
    IF \E i \in 1..Len(names) : names[i] \in among
    THEN Some(names[CHOOSE i \in 1..Len(names) :
                       names[i] \in among /\ \A j \in 1..(i - 1) : names[j] \notin among])
    ELSE Undefined

\* a ?? b, for a boxed a
Coalesce(a, b) == IF a = Undefined THEN b ELSE a.value

\* a ?? b, for records a and b
OrElse(a, b) == IF a = Undefined THEN b ELSE a

\* The first property from position i on whose name is an items field and
\* whose type is an array.
RECURSIVE findItemsFrom(_, _)
findItemsFrom(props, i) ==
    IF i > Len(props) THEN Undefined
    ELSE IF props[i].name \in Range(ITEMS_FIELDS) /\ props[i].type.kind = "array"
    THEN Some(<<props[i].name>>)
    ELSE findItemsFrom(props, i + 1)

findItemsPath(type) ==
    IF type.kind # "object" THEN Undefined ELSE findItemsFrom(type.properties, 1)

\* The scan shared by findNextPagePath and findPageCountPath: each property in
\* turn is matched by name against `fields`, else, when it is an object named
\* as one of `containers`, its own properties are.
RECURSIVE findFieldFrom(_, _, _, _)
findFieldFrom(props, i, fields, containers) ==
    IF i > Len(props) THEN Undefined
    ELSE IF props[i].name \in fields
    THEN Some(<<props[i].name>>)
    ELSE LET nested ==
                 IF props[i].name \in containers /\ props[i].type.kind = "object"
                 THEN FindFirst([k \in 1..Len(props[i].type.properties) |->
                                    props[i].type.properties[k].name], fields)
                 ELSE Undefined
         IN  IF nested # Undefined
             THEN Some(<<props[i].name, nested.value>>)
             ELSE findFieldFrom(props, i + 1, fields, containers)

findNextPagePath(type) ==
    IF type.kind # "object" THEN Undefined
    ELSE findFieldFrom(type.properties, 1, Range(CURSOR_RESPONSE_FIELDS), NextPageContainers)

findPageCountPath(type) ==
    IF type.kind # "object" THEN Undefined
    ELSE findFieldFrom(type.properties, 1, Range(PAGE_COUNT_FIELDS), PageCountContainers)

PaginationInfo(strategy, pageParam, nextPagePath, itemsPath) ==
    [strategy |-> strategy, pageParam |-> pageParam,
     nextPagePath |-> nextPagePath, itemsPath |-> itemsPath]

\* new Set(op.queryParams.map((p) => p.name))
queryParamNames(o) == {o.queryParams[i].name : i \in 1..Len(o.queryParams)}

\* Strategy 1 of detectPagination.
cursorStrategy(o) ==
    LET name == FindFirst(CURSOR_PARAM_NAMES, queryParamNames(o)) IN
    IF name = Undefined THEN Undefined
    ELSE PaginationInfo("cursor", name.value,
                        Coalesce(findNextPagePath(o.response.type), <<name.value>>),
                        Coalesce(findItemsPath(o.response.type), <<>>))

\* Mutant of offsetLimitStrategy: the limit-like parameter is not required.
offsetLimitStrategy_NoLimitCheck(o) ==
    LET offsetName == FindFirst(OFFSET_PARAM_NAMES, queryParamNames(o)) IN
    IF offsetName = Undefined THEN Undefined
    ELSE PaginationInfo("offset-limit", offsetName.value, <<offsetName.value>>,
                        Coalesce(findItemsPath(o.response.type), <<>>))

\* Strategy 2 of detectPagination.
offsetLimitStrategy(o) ==
    LET offsetName == FindFirst(OFFSET_PARAM_NAMES, queryParamNames(o))
        hasLimit == \E i \in 1..Len(LIMIT_PARAM_NAMES) : LIMIT_PARAM_NAMES[i] \in queryParamNames(o)
    IN  IF offsetName = Undefined \/ ~hasLimit THEN Undefined
        ELSE PaginationInfo("offset-limit", offsetName.value, <<offsetName.value>>,
                            Coalesce(findItemsPath(o.response.type), <<>>))

\* Strategy 3 of detectPagination.
pageNumberStrategy(o) ==
    LET pageName == FindFirst(PAGE_NUMBER_PARAM_NAMES, queryParamNames(o)) IN
    IF pageName = Undefined THEN Undefined
    ELSE PaginationInfo("page-number", pageName.value,
                        Coalesce(findPageCountPath(o.response.type), <<pageName.value>>),
                        Coalesce(findItemsPath(o.response.type), <<>>))

\* Mutant of likelyCursorParam: the guess also considers the offset-like names.
likelyCursorParam_AnyPagingName(o) ==
    OrElse(FindFirst(CURSOR_PARAM_NAMES, queryParamNames(o)),
    OrElse(FindFirst(PAGE_NUMBER_PARAM_NAMES, queryParamNames(o)),
           FindFirst(OFFSET_PARAM_NAMES, queryParamNames(o))))

\* The parameter name the shape-only fallback guesses.
likelyCursorParam(o) ==
    OrElse(FindFirst(CURSOR_PARAM_NAMES, queryParamNames(o)),
           FindFirst(PAGE_NUMBER_PARAM_NAMES, queryParamNames(o)))

\* Mutant of shapeFallback: a cursor field and an items field in the response
\* are enough, and the parameter name defaults to "cursor".
shapeFallback_ShapeOnly(o) ==
    IF o.response.type.kind # "object" THEN Undefined
    ELSE LET cursorPath == findNextPagePath(o.response.type)
             items == findItemsPath(o.response.type)
         IN  IF cursorPath # Undefined /\ items # Undefined
             THEN PaginationInfo("cursor",
                                 IF likelyCursorParam(o) # Undefined
                                 THEN likelyCursorParam(o).value ELSE "cursor",
                                 cursorPath.value, items.value)
             ELSE Undefined

\* The fallback of detectPagination on the response shape.
shapeFallback(o) ==
    IF o.response.type.kind # "object" THEN Undefined
    ELSE LET cursorPath == findNextPagePath(o.response.type)
             items == findItemsPath(o.response.type)
         IN  IF cursorPath # Undefined /\ items # Undefined /\ likelyCursorParam(o) # Undefined
             THEN PaginationInfo("cursor", likelyCursorParam(o).value, cursorPath.value, items.value)
             ELSE Undefined

\* Mutant of detectPagination: the page-number strategy is tried before the
\* offset-limit strategy.
detectPagination_PageBeforeOffset(o) ==
    OrElse(cursorStrategy(o),
    OrElse(pageNumberStrategy(o),
    OrElse(offsetLimitStrategy(o),
           shapeFallback(o))))

\* Each strategy returns as soon as it matches; the next one runs otherwise.
detectPagination(o) ==
    OrElse(cursorStrategy(o),
    OrElse(offsetLimitStrategy(o),
    OrElse(pageNumberStrategy(o),
           shapeFallback(o))))

\* Mutant of annotate: the annotated copy loses the query parameters.
annotate_DropParams(o) ==
    IF o.method # "GET" /\ o.method # "QUERY" THEN o
    ELSE IF o.pagination # Undefined THEN o
    ELSE LET pagination == detectPagination(o) IN
         IF pagination # Undefined
         THEN [o EXCEPT !.pagination = pagination, !.queryParams = <<>>]
         ELSE o

\* Mutant of annotate: existing pagination info is not checked for.
annotate_Overwrite(o) ==
    IF o.method # "GET" /\ o.method # "QUERY" THEN o
    ELSE LET pagination == detectPagination(o) IN
         IF pagination # Undefined THEN [o EXCEPT !.pagination = pagination] ELSE o

\* Mutant of annotate: the method is not checked.
annotate_AnyMethod(o) ==
    IF o.pagination # Undefined THEN o
    ELSE LET pagination == detectPagination(o) IN
         IF pagination # Undefined THEN [o EXCEPT !.pagination = pagination] ELSE o

\* The callback applyPaginationDetection maps over spec.operations.
annotate(o) ==
    IF o.method # "GET" /\ o.method # "QUERY" THEN o
    ELSE IF o.pagination # Undefined THEN o
    ELSE LET pagination == detectPagination(o) IN
         IF pagination # Undefined THEN [o EXCEPT !.pagination = pagination] ELSE o

applyPaginationDetection(sp) ==
    [sp EXCEPT !.operations = [i \in 1..Len(sp.operations) |-> annotate(sp.operations[i])]]


(***************************************************************************)
(* OpenAPI 3.x parser (src/parsers/openapi-parser.ts)                      *)
(*                                                                         *)
(* A document is the dereferenced one: SwaggerParser.dereference is the    *)
(* external collaborator and leaves reference objects only where a schema  *)
(* is circular.  An object with string keys is a sequence of entries in    *)
(* key order.  `description` and `summary` texts are left out.             *)
(***************************************************************************)
\* A reference object { $ref: ... }.
RefObject(target) == [ref |-> target]
isRef(obj) == "ref" \in DOMAIN obj

\* A schema object.  type is "" when absent; nullable is FALSE when absent;
\* the other fields are Undefined when absent, and boxed when they hold a
\* string or an array.
SchemaObject ==
    [type |-> "", format |-> Undefined, title |-> Undefined, nullable |-> FALSE,
     properties |-> Undefined, required |-> Undefined, additionalProperties |-> Undefined,
     items |-> Undefined, enum |-> Undefined,
     oneOf |-> Undefined, anyOf |-> Undefined, allOf |-> Undefined]

Entry(key, value) == [key |-> key, value |-> value]
EntryKeys(entries) == [i \in 1..Len(entries) |-> entries[i].key]
HasKey(entries, key) == \E i \in 1..Len(entries) : entries[i].key = key
Lookup(entries, key) ==
    IF HasKey(entries, key)
    THEN entries[CHOOSE i \in 1..Len(entries) : entries[i].key = key].value
    ELSE Undefined

RECURSIVE ObjectAssign_FirstWins(_, _, _)
\* A merge in which a key of the target keeps its value.
ObjectAssign_FirstWins(target, source, i) ==
    IF i > Len(source) THEN target
    ELSE ObjectAssign_FirstWins(
            IF \E k \in 1..Len(target) : target[k].key = source[i].key THEN target
            ELSE Append(target, source[i]),
            source, i + 1)

\* Object.assign(target, source) on entry lists: a key of the target keeps its
\* position and takes the source's value; new keys are appended in order.
RECURSIVE ObjectAssign(_, _, _)
ObjectAssign(target, source, i) ==
    IF i > Len(source) THEN target
    ELSE ObjectAssign(
            IF HasKey(target, source[i].key)
            THEN [k \in 1..Len(target) |->
                     IF target[k].key = source[i].key THEN source[i] ELSE target[k]]
            ELSE Append(target, source[i]),
            source, i + 1)

NonRefs(objs) == SelectSeq(objs, LAMBDA o : ~isRef(o))

\* JavaScript truthiness of an optional object, array or boolean: undefined
\* and false are falsy; objects and arrays, empty ones too, are truthy.
Truthy(v) == v # Undefined /\ v # Boolean(FALSE)

\* JavaScript truthiness of an optional string: the empty string is falsy.
TruthyString(v) == v # Undefined /\ v.value # ""

hasObjectShape(schema) ==
    Truthy(schema.properties) \/ Truthy(schema.additionalProperties)

RECURSIVE mergeAllOfFrom(_, _, _)
mergeAllOfFrom(schemas, i, merged) ==
    IF i > Len(schemas) THEN merged
    ELSE mergeAllOfFrom(schemas, i + 1,
            [merged EXCEPT
               !.properties =
                  IF schemas[i].properties # Undefined
                  THEN Some(ObjectAssign(@.value, schemas[i].properties.value, 1))
                  ELSE @,
               !.required =
                  IF schemas[i].required # Undefined
                  THEN Some(@.value \o schemas[i].required.value)
                  ELSE @])

mergeAllOf(schemas) ==
    mergeAllOfFrom(schemas, 1,
        [SchemaObject EXCEPT !.type = "object", !.properties = Some(<<>>), !.required = Some(<<>>)])

NonEmpty(boxed) == boxed # Undefined /\ Len(boxed.value) > 0

RECURSIVE convertSchema(_)
RECURSIVE convertObjectSchema(_)

convertObjectSchema(schema) ==
    LET requiredSet == IF schema.required # Undefined THEN Range(schema.required.value) ELSE {}
        entries == IF schema.properties # Undefined
                   THEN SelectSeq(schema.properties.value, LAMBDA e : ~isRef(e.value))
                   ELSE <<>>
        properties == [i \in 1..Len(entries) |->
                          ApiProperty(entries[i].key, convertSchema(entries[i].value),
                                      entries[i].key \in requiredSet)]
        ap == schema.additionalProperties
    IN  ApiObject(properties,
                  IF ap = Undefined THEN Undefined
                  ELSE IF ~isRef(ap) /\ "kind" \in DOMAIN ap THEN ap
                  ELSE IF ~isRef(ap) THEN convertSchema(ap)
                  ELSE Undefined,
                  IF TruthyString(schema.title) THEN schema.title ELSE Undefined)

convertSchema(schema) ==
    IF schema = Undefined THEN Primitive("unknown")
    ELSE IF NonEmpty(schema.oneOf)
    THEN LET vs == NonRefs(schema.oneOf.value)
         IN  Union([i \in 1..Len(vs) |-> convertSchema(vs[i])])
    ELSE IF NonEmpty(schema.anyOf)
    THEN LET vs == NonRefs(schema.anyOf.value)
         IN  Union([i \in 1..Len(vs) |-> convertSchema(vs[i])])
    ELSE IF NonEmpty(schema.allOf)
    THEN convertSchema(mergeAllOf(NonRefs(schema.allOf.value)))
    ELSE IF NonEmpty(schema.enum)
    THEN Enum(schema.enum.value, schema.title)
    ELSE IF schema.type = "array"
    THEN Array(IF schema.items # Undefined /\ isRef(schema.items)
               THEN Primitive("unknown")
               ELSE convertSchema(schema.items))
    ELSE IF schema.type = "object" \/ Truthy(schema.properties)
            \/ (schema.type = "" /\ hasObjectShape(schema))
    THEN convertObjectSchema(schema)
    ELSE IF schema.type \in {"string", "number", "integer", "boolean"}
    THEN IF TruthyString(schema.format)
         THEN [kind |-> "primitive", type |-> schema.type, format |-> schema.format.value]
         ELSE Primitive(schema.type)
    ELSE IF schema.nullable /\ schema.type # ""
    THEN Union(<<convertSchema([schema EXCEPT !.nullable = FALSE]), Primitive("null")>>)
    ELSE Primitive("unknown")


\* A parameter object; required is Boolean(b) or Undefined, schema a schema
\* object, a reference object or Undefined.
ParameterObject(name, location, required, schema) ==
    [name |-> name, in |-> location, required |-> required, schema |-> schema]

convertParameter(param) ==
    [name |-> param.name,
     required |-> IF param.required # Undefined THEN param.required.value ELSE param.in = "path",
     type |-> convertSchema(IF param.schema # Undefined /\ ~isRef(param.schema)
                            THEN param.schema ELSE Undefined),
     in |-> param.in]

\* A media type object: [schema |-> schema, reference or Undefined].
MediaSchema(media) ==
    IF media.schema # Undefined /\ ~isRef(media.schema) THEN media.schema ELSE Undefined

\* content['application/json'] ?? content['*/*']
JsonMedia(content) == OrElse(Lookup(content, "application/json"), Lookup(content, "*/*"))

\* body is [required |-> Boolean(b) or Undefined, content |-> entries]
convertRequestBody(body) ==
    LET jsonContent == JsonMedia(body.content)
        required == IF body.required # Undefined THEN body.required.value ELSE FALSE
    IN  IF jsonContent = Undefined
        THEN IF Len(body.content) = 0 THEN Undefined
             ELSE [required |-> required, contentType |-> body.content[1].key,
                   type |-> convertSchema(MediaSchema(body.content[1].value))]
        ELSE [required |-> required, contentType |-> "application/json",
              type |-> convertSchema(MediaSchema(jsonContent))]

\* The status codes of the model that begin with "2".
Codes2xx == {"200", "201", "202", "204"}

\* A status code is kept as its text (the source stores parseInt of it, or
\* 'default').
ApiResponse(statusCode, contentType, type) ==
    [statusCode |-> statusCode, contentType |-> contentType, type |-> type]

\* The candidate response under `code`, unless absent or a reference.
Candidate(responses, code) ==
    LET c == Lookup(responses, code) IN IF c # Undefined /\ ~isRef(c) THEN Some(code) ELSE Undefined

\* The status code convertResponse settles on: 200, 201, the first 2xx key,
\* default; Undefined when there is none.  responses is in key order.
successCode(responses) ==
    OrElse(Candidate(responses, "200"),
    OrElse(Candidate(responses, "201"),
    OrElse(LET hits == SelectSeq(responses, LAMBDA e : e.key \in Codes2xx /\ ~isRef(e.value))
           IN  IF Len(hits) > 0 THEN Some(hits[1].key) ELSE Undefined,
           Candidate(responses, "default"))))

\* A response object is [content |-> Some(entries) or Undefined].
convertResponse(responses) ==
    LET code == successCode(responses) IN
    IF code = Undefined THEN ApiResponse("200", "application/json", Primitive("unknown"))
    ELSE LET content == Lookup(responses, code.value).content IN
         IF content = Undefined
         THEN ApiResponse(code.value, "application/json", Primitive("unknown"))
         ELSE IF JsonMedia(content.value) # Undefined
         THEN ApiResponse(code.value, "application/json",
                          convertSchema(MediaSchema(JsonMedia(content.value))))
         ELSE IF Len(content.value) > 0
         THEN ApiResponse(code.value, content.value[1].key,
                          convertSchema(MediaSchema(content.value[1].value)))
         ELSE ApiResponse(code.value, "application/json", Primitive("unknown"))

\* seg.replace(/[{}]/g, '') and the upper-casing of its first character
CleanSegment(seg) ==
    LET clean == RemoveChars(seg, {"{", "}"}, 1)
    IN  ToUpperCase(CharAt(clean, 1)) \o Slice(clean, 1, Len(clean))

RECURSIVE JoinAll(_, _)
\* The concatenation of a sequence of sequences.
JoinAll(segs, i) == IF i > Len(segs) THEN <<>> ELSE segs[i] \o JoinAll(segs, i + 1)

\* path.split('/').filter(Boolean)
PathSegments(path) == SelectSeq(Split(path, "/"), LAMBDA seg : seg # "")

generateOperationId(method, path) ==
    LET segments == PathSegments(path)
    IN  ToLowerCase(method) \o Join([i \in 1..Len(segments) |-> CleanSegment(segments[i])], 1)

HTTP_METHODS == <<"get", "post", "put", "delete", "patch", "head", "options">>
UpperCase(method) == ToUpperCase(method)

\* A key that ignores the location.
ParamKey_NameOnly(param) == param.name

\* `${p.in}:${p.name}`
ParamKey(param) == param.in \o ":" \o param.name

mergeParameters(pathParams, opParams) ==
    LET opParamKeys == {ParamKey(opParams[i]) : i \in 1..Len(opParams)}
    IN  SelectSeq(pathParams, LAMBDA q : ParamKey(q) \notin opParamKeys) \o opParams

ParamsIn(mergedParams, location) ==
    LET chosen == SelectSeq(mergedParams, LAMBDA q : q.in = location)
    IN  [i \in 1..Len(chosen) |-> convertParameter(chosen[i])]

\* The operation built for one method of one path item.  Nothing of the
\* operation object but the fields read here reaches the result.
buildOperation(path, pathItem, method) ==
    LET operationObj == Lookup(pathItem.operations, method)
        mergedParams == mergeParameters(NonRefs(pathItem.parameters),
                                        NonRefs(operationObj.parameters))
    IN  [operationId |-> IF operationObj.operationId # Undefined
                         THEN operationObj.operationId.value
                         ELSE generateOperationId(method, path),
         method |-> UpperCase(method),
         path |-> path,
         tags |-> IF Len(operationObj.tags) > 0 THEN operationObj.tags ELSE <<"default">>,
         pathParams |-> ParamsIn(mergedParams, "path"),
         queryParams |-> ParamsIn(mergedParams, "query"),
         headerParams |-> ParamsIn(mergedParams, "header"),
         requestBody |-> IF operationObj.requestBody # Undefined /\ ~isRef(operationObj.requestBody)
                         THEN convertRequestBody(operationObj.requestBody)
                         ELSE Undefined,
         response |-> convertResponse(operationObj.responses),
         pagination |-> Undefined,
         deprecated |-> operationObj.deprecated]

\* The operations of one path item, in the order of HTTP_METHODS.
pathOperations(path, pathItem) ==
    LET methods == SelectSeq(HTTP_METHODS, LAMBDA m : HasKey(pathItem.operations, m))
    IN  [i \in 1..Len(methods) |-> buildOperation(path, pathItem, methods[i])]

\* The named types of components.schemas.
namedTypes(schemas) ==
    LET kept == SelectSeq(schemas, LAMBDA e : ~isRef(e.value))
    IN  [i \in 1..Len(kept) |->
            LET converted == convertSchema(kept[i].value) IN
            [name |-> kept[i].key,
             type |-> IF converted.kind \in {"object", "enum"} /\ ~TruthyString(converted.name)
                      THEN [converted EXCEPT !.name = Some(kept[i].key)]
                      ELSE converted]]

\* A string or array field, as opposed to a number.
IsBoxed(v) == "value" \in DOMAIN v /\ "typeof" \notin DOMAIN v

\* An own field of an input object that is present.
HasField(input, key) == key \in DOMAIN input /\ input[key] # Undefined

\* typeof input === 'object' && input !== null: strings, numbers and null are
\* records with a typeof field.
IsObject(input) == "typeof" \notin DOMAIN input

\* openApiParser.canParse: doc.openapi is a string that starts with "3".
openApiCanParse(input) ==
    /\ IsObject(input)
    /\ HasField(input, "openapi") /\ IsBoxed(input.openapi)
    /\ StartsWith(input.openapi.value, "3")

\* openApiParser.parse, without a baseUrl option, on a document that holds no
\* $ref: SwaggerParser.dereference leaves such a document as it is.
openApiParse(input) ==
    [title |-> IF input.info.title # Undefined THEN input.info.title.value ELSE "Untitled API",
     baseUrl |-> IF Len(input.servers) > 0 THEN input.servers[1] ELSE "",
     version |-> IF input.info.version # Undefined THEN input.info.version.value ELSE "0.0.0",
     operations |-> JoinAll([i \in 1..Len(input.paths) |->
                                pathOperations(input.paths[i].key, input.paths[i].value)], 1),
     types |-> namedTypes(input.schemas)]

(***************************************************************************)
(* Swagger 2.0 parser (src/parsers/swagger-parser.ts)                      *)
(***************************************************************************)
RECURSIVE swaggerMergeAllOfFrom(_, _, _)
swaggerMergeAllOfFrom(schemas, i, merged) ==
    IF i > Len(schemas) THEN merged
    ELSE swaggerMergeAllOfFrom(schemas, i + 1,
            [merged EXCEPT
               !.properties =
                  IF Truthy(schemas[i].properties)
                  THEN Some(ObjectAssign(@.value, schemas[i].properties.value, 1))
                  ELSE @,
               !.required =
                  IF Truthy(schemas[i].required)
                  THEN Some(@.value \o schemas[i].required.value)
                  ELSE @])

swaggerMergeAllOf(schemas) ==
    swaggerMergeAllOfFrom(schemas, 1,
        [SchemaObject EXCEPT !.type = "object", !.properties = Some(<<>>), !.required = Some(<<>>)])

swaggerHasObjectShape(schema) ==
    Truthy(schema.properties) \/ Truthy(schema.additionalProperties)

RECURSIVE swaggerConvertSchema(_)
RECURSIVE swaggerConvertObjectSchema(_)

swaggerConvertObjectSchema(schema) ==
    LET requiredSet == IF schema.required # Undefined THEN Range(schema.required.value) ELSE {}
        entries == IF Truthy(schema.properties)
                   THEN SelectSeq(schema.properties.value, LAMBDA e : ~isRef(e.value))
                   ELSE <<>>
        properties == [i \in 1..Len(entries) |->
                          ApiProperty(entries[i].key, swaggerConvertSchema(entries[i].value),
                                      entries[i].key \in requiredSet)]
        ap == schema.additionalProperties
    IN  ApiObject(properties,
                  IF ap = Undefined THEN Undefined
                  ELSE IF ~isRef(ap) /\ "kind" \in DOMAIN ap THEN ap
                  ELSE IF ~isRef(ap) THEN swaggerConvertSchema(ap)
                  ELSE Undefined,
                  IF TruthyString(schema.title) THEN schema.title ELSE Undefined)

\* schemaType is schema.type when that is a string; no nullable step here.
swaggerConvertSchema(schema) ==
    IF schema = Undefined THEN Primitive("unknown")
    ELSE IF NonEmpty(schema.oneOf)
    THEN LET vs == NonRefs(schema.oneOf.value)
         IN  Union([i \in 1..Len(vs) |-> swaggerConvertSchema(vs[i])])
    ELSE IF NonEmpty(schema.anyOf)
    THEN LET vs == NonRefs(schema.anyOf.value)
         IN  Union([i \in 1..Len(vs) |-> swaggerConvertSchema(vs[i])])
    ELSE IF NonEmpty(schema.allOf)
    THEN swaggerConvertSchema(swaggerMergeAllOf(NonRefs(schema.allOf.value)))
    ELSE IF NonEmpty(schema.enum)
    THEN Enum(schema.enum.value, schema.title)
    ELSE IF schema.type = "array"
    THEN Array(IF Truthy(schema.items) /\ ~isRef(schema.items)
               THEN swaggerConvertSchema(schema.items)
               ELSE Primitive("unknown"))
    ELSE IF schema.type = "object" \/ Truthy(schema.properties)
            \/ (schema.type = "" /\ swaggerHasObjectShape(schema))
    THEN swaggerConvertObjectSchema(schema)
    ELSE IF schema.type \in {"string", "number", "integer", "boolean"}
    THEN IF TruthyString(schema.format)
         THEN [kind |-> "primitive", type |-> schema.type, format |-> schema.format.value]
         ELSE Primitive(schema.type)
    ELSE Primitive("unknown")

mapSwagger2Type(t) ==
    CASE t = "string" -> "string"
      [] t \in {"number", "float", "double"} -> "number"
      [] t \in {"integer", "long"} -> "integer"
      [] t = "boolean" -> "boolean"
      [] OTHER -> "unknown"

\* A primitive with the format the source copies over, undefined or not.
PrimitiveWithFormat(t, format) ==
    IF format # Undefined THEN [kind |-> "primitive", type |-> t, format |-> format.value]
    ELSE Primitive(t)

\* An items object: [type, format, enum, items].
ItemsObject(type, items) ==
    [type |-> type, format |-> Undefined, enum |-> Undefined, items |-> items]

RECURSIVE convertItemsToType(_)
convertItemsToType(items) ==
    IF NonEmpty(items.enum) THEN Enum(items.enum.value, Undefined)
    ELSE IF items.type = "array" /\ Truthy(items.items) /\ ~isRef(items.items)
    THEN Array(convertItemsToType(items.items))
    ELSE PrimitiveWithFormat(mapSwagger2Type(items.type), items.format)

\* A Swagger 2.0 parameter: a general one carries type, format, enum and
\* items; a body one carries schema.
SwaggerParameter(name, location, required, type) ==
    [name |-> name, in |-> location, required |-> required, type |-> type,
     format |-> Undefined, enum |-> Undefined, items |-> Undefined, schema |-> Undefined]

convertGeneralParam(param) ==
    [name |-> param.name,
     required |-> IF param.required # Undefined THEN param.required.value ELSE param.in = "path",
     type |-> IF NonEmpty(param.enum) THEN Enum(param.enum.value, Undefined)
              ELSE IF param.type = "array" /\ Truthy(param.items)
              THEN Array(IF isRef(param.items) THEN Primitive("unknown")
                         ELSE convertItemsToType(param.items))
              ELSE PrimitiveWithFormat(mapSwagger2Type(param.type), param.format),
     in |-> param.in]

\* produces.includes('application/json') ? 'application/json' : produces[0] ?? 'application/json'
producedJson(produces) ==
    IF "application/json" \in Range(produces) THEN "application/json"
    ELSE IF Len(produces) > 0 THEN produces[1] ELSE "application/json"

convertBodyParam(param, produces) ==
    [required |-> IF param.required # Undefined THEN param.required.value ELSE FALSE,
     contentType |-> producedJson(produces),
     type |-> swaggerConvertSchema(IF param.schema # Undefined /\ isRef(param.schema)
                                   THEN Undefined ELSE param.schema)]

\* A Swagger 2.0 response object is [schema |-> schema, reference or Undefined].
swaggerSuccessCode(responses) ==
    OrElse(Candidate(responses, "200"),
    OrElse(Candidate(responses, "201"),
    OrElse(LET hits == SelectSeq(responses, LAMBDA e : e.key \in Codes2xx /\ ~isRef(e.value))
           IN  IF Len(hits) > 0 THEN Some(hits[1].key) ELSE Undefined,
           Candidate(responses, "default"))))

swaggerConvertResponse(responses, produces) ==
    LET code == swaggerSuccessCode(responses)
        responseObj == IF code = Undefined THEN Undefined ELSE Lookup(responses, code.value)
        statusCode == IF code = Undefined THEN "200" ELSE code.value
    IN  IF responseObj = Undefined \/ ~Truthy(responseObj.schema)
        THEN ApiResponse(statusCode,
                         IF Len(produces) > 0 THEN produces[1] ELSE "application/json",
                         Primitive("unknown"))
        ELSE ApiResponse(statusCode, producedJson(produces),
                         swaggerConvertSchema(IF isRef(responseObj.schema) THEN Undefined
                                              ELSE responseObj.schema))

swaggerGenerateOperationId(method, path) ==
    LET segments == PathSegments(path)
    IN  ToLowerCase(method) \o Join([i \in 1..Len(segments) |-> CleanSegment(segments[i])], 1)

swaggerMergeParameters(pathParams, opParams) ==
    LET opParamKeys == {ParamKey(opParams[i]) : i \in 1..Len(opParams)}
    IN  SelectSeq(pathParams, LAMBDA q : ParamKey(q) \notin opParamKeys) \o opParams

swaggerParamsIn(mergedParams, location) ==
    LET chosen == SelectSeq(mergedParams, LAMBDA q : q.in = location)
    IN  [i \in 1..Len(chosen) |-> convertGeneralParam(chosen[i])]

\* The loop over the merged parameters keeps the last body parameter.
swaggerRequestBody(mergedParams, produces) ==
    LET bodies == SelectSeq(mergedParams, LAMBDA q : q.in = "body")
    IN  IF Len(bodies) = 0 THEN Undefined
        ELSE convertBodyParam(bodies[Len(bodies)], produces)

\* An operation object is [operationId, tags, parameters, produces, responses,
\* deprecated]; produces is Some(sequence) or Undefined.
swaggerBuildOperation(path, pathItem, method, globalProduces) ==
    LET operationObj == Lookup(pathItem.operations, method)
        mergedParams == swaggerMergeParameters(NonRefs(pathItem.parameters),
                                               NonRefs(operationObj.parameters))
        produces == IF operationObj.produces # Undefined THEN operationObj.produces.value
                    ELSE globalProduces
    IN  [operationId |-> IF operationObj.operationId # Undefined
                         THEN operationObj.operationId.value
                         ELSE swaggerGenerateOperationId(method, path),
         method |-> UpperCase(method),
         path |-> path,
         tags |-> IF Len(operationObj.tags) > 0 THEN operationObj.tags ELSE <<"default">>,
         pathParams |-> swaggerParamsIn(mergedParams, "path"),
         queryParams |-> swaggerParamsIn(mergedParams, "query"),
         headerParams |-> swaggerParamsIn(mergedParams, "header"),
         requestBody |-> swaggerRequestBody(mergedParams, produces),
         response |-> swaggerConvertResponse(operationObj.responses, produces),
         pagination |-> Undefined,
         deprecated |-> operationObj.deprecated]

swaggerPathOperations(path, pathItem, globalProduces) ==
    LET methods == SelectSeq(HTTP_METHODS, LAMBDA m : HasKey(pathItem.operations, m))
    IN  [i \in 1..Len(methods) |->
            swaggerBuildOperation(path, pathItem, methods[i], globalProduces)]

swaggerNamedTypes(definitions) ==
    LET kept == SelectSeq(definitions, LAMBDA e : ~isRef(e.value))
    IN  [i \in 1..Len(kept) |->
            LET converted == swaggerConvertSchema(kept[i].value) IN
            [name |-> kept[i].key,
             type |-> IF converted.kind \in {"object", "enum"} /\ ~TruthyString(converted.name)
                      THEN [converted EXCEPT !.name = Some(kept[i].key)]
                      ELSE converted]]

\* swaggerParser.canParse: doc.swagger === '2.0'
swaggerCanParse(input) ==
    IsObject(input) /\ HasField(input, "swagger") /\ input.swagger = Some("2.0")

\* `${scheme}://${host}${basePath}`, as the sequence of its parts
swaggerBaseUrl(input) ==
    LET scheme == IF Len(input.schemes) > 0 THEN input.schemes[1] ELSE "https"
        host == IF input.host # Undefined THEN input.host.value ELSE ""
        basePath == IF input.basePath # Undefined THEN input.basePath.value ELSE ""
    IN  IF host # "" THEN <<scheme, "://", host, basePath>> ELSE <<basePath>>

\* swaggerParser.parse, without a baseUrl option, on a document that holds no
\* $ref.
swaggerParse(input) ==
    LET globalProduces == IF input.produces # Undefined THEN input.produces.value
                          ELSE <<"application/json">>
    IN  [title |-> IF input.info.title # Undefined THEN input.info.title.value ELSE "Untitled API",
         baseUrl |-> swaggerBaseUrl(input),
         version |-> IF input.info.version # Undefined THEN input.info.version.value ELSE "0.0.0",
         operations |-> JoinAll([i \in 1..Len(input.paths) |->
                                    swaggerPathOperations(input.paths[i].key, input.paths[i].value,
                                                          globalProduces)], 1),
         types |-> swaggerNamedTypes(input.definitions)]

(***************************************************************************)
(* GraphQL parser (src/parsers/graphql-parser.ts)                          *)
(*                                                                         *)
(* A GraphQLSchema is [typeMap, queryType, mutationType, subscriptionType]: *)
(* typeMap is the entry list of getTypeMap(), the root types are names or  *)
(* Undefined.  A type definition is [kind, name, fields, values, types];   *)
(* a type reference is NamedType, ListOf or NonNull.                       *)
(***************************************************************************)
NamedType(name) == [kind |-> "NAMED", name |-> name]
ListOf(t) == [kind |-> "LIST", ofType |-> t]
NonNull(t) == [kind |-> "NON_NULL", ofType |-> t]

isNonNullType(t) == t.kind = "NON_NULL"
isListType(t) == t.kind = "LIST"

\* fields: <<Entry(fieldName, [type, args, deprecationReason]), ...>>;
\* args: <<[name, type], ...>>
TypeDef(kind, name, fields, values, members) ==
    [kind |-> kind, name |-> name, fields |-> fields, values |-> values, types |-> members]
ScalarDef(name) == TypeDef("SCALAR", name, <<>>, <<>>, <<>>)
EnumDef(name, values) == TypeDef("ENUM", name, <<>>, values, <<>>)
UnionDef(name, members) == TypeDef("UNION", name, <<>>, <<>>, members)
ObjectDef(name, fields) == TypeDef("OBJECT", name, fields, <<>>, <<>>)
InputObjectDef(name, fields) == TypeDef("INPUT_OBJECT", name, fields, <<>>, <<>>)
InterfaceDef(name, fields) == TypeDef("INTERFACE", name, fields, <<>>, <<>>)
Field(type, args) == [type |-> type, args |-> args, deprecationReason |-> Undefined]
Argument(name, type) == [name |-> name, type |-> type]

mapScalarType(name) ==
    CASE name = "String" -> Primitive("string")
      [] name = "Int" -> PrimitiveWithFormat("number", Some("int32"))
      [] name = "Float" -> PrimitiveWithFormat("number", Some("float"))
      [] name = "Boolean" -> Primitive("boolean")
      [] name = "ID" -> PrimitiveWithFormat("string", Some("id"))
      [] name = "DateTime" -> PrimitiveWithFormat("string", Some("date-time"))
      [] name = "Date" -> PrimitiveWithFormat("string", Some("date"))
      [] name \in {"JSON", "JSONObject"} -> Primitive("unknown")
      [] OTHER -> Primitive("string")

RECURSIVE convertInnerType(_, _, _)
RECURSIVE convertObjectType(_, _, _)
RECURSIVE convertInputObjectType(_, _, _)

\* convertGraphQLType: [type, required]; visited is the module-level Set
\* as it stands when the call is made.
convertGraphQLType(schema, graphqlType, visited) ==
    IF isNonNullType(graphqlType)
    THEN [type |-> convertInnerType(schema, graphqlType.ofType, visited), required |-> TRUE]
    ELSE [type |-> convertInnerType(schema, graphqlType, visited), required |-> FALSE]

\* The properties of an object or input object, one per field.
FieldProperties(schema, fields, visited) ==
    [i \in 1..Len(fields) |->
        LET c == convertGraphQLType(schema, fields[i].value.type, visited)
        IN  ApiProperty(fields[i].key, c.type, c.required)]

\* A conversion that marks every type of the schema as being in progress.
convertObjectType_MarkAll(schema, objType, visited) ==
    IF objType.name \in visited THEN Ref(objType.name)
    ELSE ApiObject(FieldProperties(schema, objType.fields,
                                   {schema.typeMap[i].key : i \in 1..Len(schema.typeMap)}),
                   Undefined, Some(objType.name))

\* visitedTypes.add(name) ... finally visitedTypes.delete(name): the fields are
\* converted with name in the Set, and the Set is as before afterwards.
convertObjectType(schema, objType, visited) ==
    IF objType.name \in visited THEN Ref(objType.name)
    ELSE ApiObject(FieldProperties(schema, objType.fields, visited \cup {objType.name}),
                   Undefined, Some(objType.name))

convertInputObjectType(schema, inputType, visited) ==
    IF inputType.name \in visited THEN Ref(inputType.name)
    ELSE ApiObject(FieldProperties(schema, inputType.fields, visited \cup {inputType.name}),
                   Undefined, Some(inputType.name))

convertInnerType(schema, graphqlType, visited) ==
    IF isListType(graphqlType)
    THEN Array(convertInnerType(schema,
                                IF isNonNullType(graphqlType.ofType)
                                THEN graphqlType.ofType.ofType ELSE graphqlType.ofType,
                                visited))
    ELSE IF graphqlType.kind # "NAMED" THEN Primitive("unknown")
    ELSE LET def == Lookup(schema.typeMap, graphqlType.name) IN
         CASE def.kind = "SCALAR" -> mapScalarType(def.name)
           [] def.kind = "ENUM" -> Enum(def.values, Some(def.name))
           [] def.kind = "UNION" ->
                Union([i \in 1..Len(def.types) |->
                          convertInnerType(schema, NamedType(def.types[i]), visited)])
           [] def.kind = "OBJECT" -> convertObjectType(schema, def, visited)
           [] def.kind = "INPUT_OBJECT" -> convertInputObjectType(schema, def, visited)
           [] OTHER -> Primitive("unknown")

convertArgument(schema, argument, visited) ==
    LET c == convertGraphQLType(schema, argument.type, visited)
    IN  [name |-> argument.name, required |-> c.required, type |-> c.type, in |-> "query"]

\* The operation of one field of a root type.
fieldOperation(schema, fieldName, field, method, tag, visited) ==
    LET args == field.args IN
    [operationId |-> fieldName,
     method |-> method,
     path |-> fieldName,
     tags |-> <<tag>>,
     pathParams |-> <<>>,
     queryParams |-> [i \in 1..Len(args) |-> convertArgument(schema, args[i], visited)],
     headerParams |-> <<>>,
     requestBody |->
        IF Len(args) > 0
        THEN [required |-> \E i \in 1..Len(args) : isNonNullType(args[i].type),
              contentType |-> "application/json",
              type |-> Object([i \in 1..Len(args) |->
                          LET c == convertGraphQLType(schema, args[i].type, visited)
                          IN  ApiProperty(args[i].name, c.type, c.required)])]
        ELSE Undefined,
     response |-> ApiResponse("200", "application/json",
                              convertGraphQLType(schema, field.type, visited).type),
     pagination |-> Undefined,
     deprecated |-> field.deprecationReason # Undefined]

buildOperationsFromType(schema, rootType, method, tag, visited) ==
    IF rootType = Undefined THEN <<>>
    ELSE LET fields == Lookup(schema.typeMap, rootType.value).fields
         IN  [i \in 1..Len(fields) |->
                 fieldOperation(schema, fields[i].key, fields[i].value, method, tag, visited)]

\* name.startsWith('__'), on the type names of the model
IntrospectionNames == {"__Schema", "__Type"}
BuiltinScalars == {"String", "Int", "Float", "Boolean", "ID"}

RootTypes(schema) ==
    {r.value : r \in {schema.queryType, schema.mutationType, schema.subscriptionType} \ {Undefined}}

\* The entries of typeMap that extractNamedTypes registers.
Registered(schema, entry) ==
    /\ entry.key \notin IntrospectionNames
    /\ ~(entry.value.kind = "SCALAR" /\ entry.key \in BuiltinScalars)
    /\ \/ entry.value.kind = "OBJECT" /\ entry.value.name \notin RootTypes(schema)
       \/ entry.value.kind \in {"INPUT_OBJECT", "ENUM", "UNION"}

extractNamedTypes(schema, visited) ==
    LET kept == SelectSeq(schema.typeMap, LAMBDA e : Registered(schema, e))
    IN  [i \in 1..Len(kept) |->
            LET def == kept[i].value IN
            [name |-> kept[i].key,
             type |-> CASE def.kind = "OBJECT" -> convertObjectType(schema, def, visited)
                        [] def.kind = "INPUT_OBJECT" -> convertInputObjectType(schema, def, visited)
                        [] def.kind = "ENUM" -> Enum(def.values, Some(kept[i].key))
                        [] def.kind = "UNION" ->
                             Union([k \in 1..Len(def.types) |->
                                       convertInnerType(schema, NamedType(def.types[k]),
                                                        visited)])]]

\* A Spec whose mutations come before its queries.
graphqlSpec_MutationsFirst(schema) ==
    [title |-> "GraphQL API",
     baseUrl |-> "/graphql",
     version |-> "0.0.0",
     operations |->
        buildOperationsFromType(schema, schema.mutationType, "MUTATION", "mutations", {})
        \o buildOperationsFromType(schema, schema.queryType, "QUERY", "queries", {})
        \o buildOperationsFromType(schema, schema.subscriptionType, "SUBSCRIPTION",
                                   "subscriptions", {}),
     types |-> extractNamedTypes(schema, {})]

\* The operations and types graphqlParser.parse builds from a schema, after
\* visitedTypes.clear().
graphqlSpec(schema) ==
    [title |-> "GraphQL API",
     baseUrl |-> "/graphql",
     version |-> "0.0.0",
     operations |->
        buildOperationsFromType(schema, schema.queryType, "QUERY", "queries", {})
        \o buildOperationsFromType(schema, schema.mutationType, "MUTATION", "mutations", {})
        \o buildOperationsFromType(schema, schema.subscriptionType, "SUBSCRIPTION",
                                   "subscriptions", {}),
     types |-> extractNamedTypes(schema, {})]

\* A string, a number and null as inputs; an object is a record of its
\* fields, with keyOrder holding Object.keys of it.
StringValue(text) == [typeof |-> "string", value |-> text]
NumberValue(n) == [typeof |-> "number", value |-> n]
Null == [typeof |-> "null"]
IsString(input) == "typeof" \in DOMAIN input /\ input.typeof = "string"

isIntrospectionResult(input) == IsObject(input) /\ HasField(input, "__schema")

isIntrospectionWrapper(input) ==
    /\ IsObject(input) /\ HasField(input, "data")
    /\ IsObject(input.data) /\ ~IsBoxed(input.data) /\ HasField(input.data, "__schema")

\* /^\s*(type |schema |input |enum |union |interface |scalar |directive |extend )/
SDL_KEYWORDS ==
    {"type ", "schema ", "input ", "enum ", "union ", "interface ", "scalar ", "directive ",
     "extend "}
Whitespace == {" ", "\t", "\n", "\r"}

RECURSIVE SkipWhitespace(_, _)
\* The 0-based index of the first character from i on that is not whitespace.
SkipWhitespace(str, i) ==
    IF i < Len(str) /\ CharAt(str, i + 1) \in Whitespace THEN SkipWhitespace(str, i + 1) ELSE i

isSDLString(input) ==
    /\ IsString(input)
    /\ LET rest == Slice(input.value, SkipWhitespace(input.value, 0), Len(input.value))
       IN  \E k \in SDL_KEYWORDS : StartsWith(rest, k)

graphqlCanParse(input) ==
    isIntrospectionResult(input) \/ isIntrospectionWrapper(input) \/ isSDLString(input)

\* A schema with one query field.
PingSchema ==
    [typeMap |-> <<Entry("Query", ObjectDef("Query", <<Entry("ping", Field(NamedType("String"), <<>>))>>)),
                   Entry("String", ScalarDef("String"))>>,
     queryType |-> Some("Query"), mutationType |-> Undefined, subscriptionType |-> Undefined]

PingSdl == "type Query {\n  ping: String\n}\n"

\* A schema without root types.
DateSchema ==
    [typeMap |-> <<Entry("Date", ScalarDef("Date")), Entry("String", ScalarDef("String"))>>,
     queryType |-> Undefined, mutationType |-> Undefined, subscriptionType |-> Undefined]

DateSdl == "scalar Date\n"

\* buildSchema of the graphql package, on the SDL texts of the model: the
\* schema a text denotes, or Undefined when the package throws.
buildSchema(text) ==
    LET body == Slice(text, SkipWhitespace(text, 0), Len(text)) IN
    CASE body = PingSdl -> PingSchema
      [] body = DateSdl -> DateSchema
      [] OTHER -> Undefined

\* buildClientSchema of the graphql package: an introspection result is kept
\* as the schema it describes.
buildClientSchema(introspection) == introspection["__schema"]

GraphQLError == [error |-> "GraphQLError"]

\* graphqlParser.parse, without a baseUrl option
graphqlParse(input) ==
    IF isIntrospectionWrapper(input) THEN graphqlSpec(buildClientSchema(input.data))
    ELSE IF isIntrospectionResult(input) THEN graphqlSpec(buildClientSchema(input))
    ELSE IF IsString(input)
    THEN IF buildSchema(input.value) = Undefined THEN GraphQLError
         ELSE graphqlSpec(buildSchema(input.value))
    ELSE [error |-> "Error"]

ParseError(message) == [error |-> "ParseError", message |-> message]

\* The parsers, in the order they are tried.
parsers == <<"openapi", "swagger", "graphql">>

canParse(parser, input) ==
    CASE parser = "openapi" -> openApiCanParse(input)
      [] parser = "swagger" -> swaggerCanParse(input)
      [] parser = "graphql" -> graphqlCanParse(input)

parse(parser, input) ==
    CASE parser = "openapi" -> openApiParse(input)
      [] parser = "swagger" -> swaggerParse(input)
      [] parser = "graphql" -> graphqlParse(input)

\* /\.[a-z]{2,10}$/i.test(input) && !input.includes('\n')
IsLetter(c) == LowerChar(c) # UpperChar(c)
HasExtension(text) ==
    \E k \in 2..10 :
        /\ Len(text) > k
        /\ CharAt(text, Len(text) - k) = "."
        /\ \A i \in (Len(text) - k + 1)..Len(text) : IsLetter(CharAt(text, i))
looksLikeFile(text) ==
    HasExtension(text) /\ \A i \in 1..Len(text) : CharAt(text, i) # "\n"

\* extname(filePath).toLowerCase(), for a path with an extension
RECURSIVE ExtFrom(_, _)
ExtFrom(text, i) == IF CharAt(text, i) = "." \/ i <= 1 THEN Slice(text, i - 1, Len(text))
                    ELSE ExtFrom(text, i - 1)
extname(filePath) == ToLowerCase(ExtFrom(filePath, Len(filePath)))

\* Keys of an object in insertion order, then keys.join(', ')
RECURSIVE JoinWith(_, _, _)
JoinWith(strs, sep, i) ==
    IF i > Len(strs) THEN ""
    ELSE IF i = Len(strs) THEN strs[i]
    ELSE strs[i] \o sep \o JoinWith(strs, sep, i + 1)

\* Number of keys and of characters the error message quotes.
PreviewKeys == 5
PreviewChars == 80

ObjectKeys(input) == input.keyOrder

hint(resolved) ==
    IF IsObject(resolved)
    THEN " Object keys: ["
         \o JoinWith(SubSeq(ObjectKeys(resolved), 1,
                            IF Len(ObjectKeys(resolved)) < PreviewKeys
                            THEN Len(ObjectKeys(resolved)) ELSE PreviewKeys), ", ", 1)
         \o "]."
    ELSE IF IsString(resolved)
    THEN " String starts with: \"" \o Slice(resolved.value, 0, PreviewChars) \o "...\"."
    ELSE ""

UnableToDetect(resolved) ==
    ParseError("Unable to detect API specification format." \o hint(resolved) \o " "
               \o "Expected an OpenAPI 3.x document (with \"openapi\" field starting with \"3\"), "
               \o "a Swagger 2.0 document (with \"swagger\": \"2.0\"), "
               \o "or a GraphQL schema (introspection JSON with \"__schema\", or SDL string).")

\* The outcome of a library parse or of a file read that may throw.
Returns(v) == [ok |-> TRUE, value |-> v]
Throws == [ok |-> FALSE]

\* The parsers that accept the resolved input, in the order of `parsers`.
accepting(resolved) == SelectSeq(parsers, LAMBDA q : canParse(q, resolved))

\* The loop over the parsers and the error after it, on the resolved input.
dispatch(resolved) ==
    IF Len(accepting(resolved)) > 0
    THEN LET first == accepting(resolved)[1]
             built == parse(first, resolved)
         IN  [value |-> IF "error" \in DOMAIN built THEN built
                        ELSE applyPaginationDetection(built),
              invoked |-> <<first>>]
    ELSE [value |-> UnableToDetect(resolved), invoked |-> <<>>]

\* Complete documents of each format, as small as the parsers take them.
MinimalOpenApi ==
    [openapi |-> Some("3.0.0"),
     info |-> [title |-> Some("Inline API"), version |-> Some("1.0.0")],
     servers |-> <<>>, paths |-> <<>>, schemas |-> <<>>,
     keyOrder |-> <<"openapi", "info", "paths">>]

MinimalSwagger ==
    [swagger |-> Some("2.0"),
     info |-> [title |-> Some("Petstore"), version |-> Some("1.0.0")],
     host |-> Undefined, basePath |-> Undefined, schemes |-> <<>>, produces |-> Undefined,
     paths |-> <<>>, definitions |-> <<>>,
     keyOrder |-> <<"swagger", "info", "paths">>]

JsonOpenApiText ==
    "{\"openapi\":\"3.0.0\",\"info\":{\"title\":\"Inline API\",\"version\":\"1.0.0\"},\"paths\":{}}"
YamlSwaggerText ==
    "swagger: '2.0'\ninfo:\n  title: Petstore\n  version: 1.0.0\npaths: {}\n"

\* JSON.parse on the texts of the model
jsonParse(text) ==
    CASE text = JsonOpenApiText -> Returns(MinimalOpenApi)
      [] text = "42" -> Returns(NumberValue(42))
      [] text = "null" -> Returns(Null)
      [] OTHER -> Throws

\* parse of the yaml package on the texts of the model that are not JSON: a
\* mapping, a syntax error (a key spread over several lines), or the text as a
\* plain scalar.
parseYaml(text) ==
    CASE text = YamlSwaggerText -> Returns(MinimalSwagger)
      [] buildSchema(text) # Undefined -> Throws
      [] OTHER -> Returns(StringValue(text))

\* The files readFile finds.
Files ==
    <<Entry("api.yaml", YamlSwaggerText), Entry("API.JSON", JsonOpenApiText),
      Entry("schema.graphql", PingSdl), Entry("broken.json", "{oops"),
      Entry("spec.conf", JsonOpenApiText), Entry("notes.txt", "hello world")>>

YAML_EXTENSIONS == {".yaml", ".yml"}
JSON_EXTENSIONS == {".json"}
GRAPHQL_EXTENSIONS == {".graphql", ".gql"}

loadFile(filePath) ==
    IF ~HasKey(Files, filePath) THEN Throws
    ELSE LET content == Lookup(Files, filePath)
             ext == extname(filePath)
         IN  IF ext \in YAML_EXTENSIONS THEN parseYaml(content)
             ELSE IF ext \in JSON_EXTENSIONS THEN jsonParse(content)
             ELSE IF ext \in GRAPHQL_EXTENSIONS THEN Returns(StringValue(content))
             ELSE IF jsonParse(content).ok THEN jsonParse(content)
             ELSE IF parseYaml(content).ok THEN parseYaml(content)
             ELSE Returns(StringValue(content))

\* The first part of parseSpec: what the input resolves to, or the failure
\* to read it.
resolve(input) ==
    IF ~IsString(input) THEN Returns(input)
    ELSE IF looksLikeFile(input.value) THEN loadFile(input.value)
    ELSE IF jsonParse(input.value).ok THEN jsonParse(input.value)
    ELSE IF parseYaml(input.value).ok
    THEN Returns(IF IsString(parseYaml(input.value).value) THEN input
                 ELSE parseYaml(input.value).value)
    ELSE Returns(input)

\* parseSpec(input), without options: what it resolves to or is rejected
\* with, and the parsers it called.
parseSpec(input) ==
    IF ~resolve(input).ok
    THEN [value |-> ParseError("Failed to read spec file \"" \o input.value \o "\""),
          invoked |-> <<>>]
    ELSE dispatch(resolve(input).value)

(***************************************************************************)
(* Operations the detector is run on                                       *)
(***************************************************************************)
\* Length of an operation's query parameter list.
MaxQueryParams == 3
\* Number of properties of a response object.
MaxProps == 2
\* Number of operations of a spec.
MaxOps == 2

Param(name, location) ==
    [name |-> name, required |-> (location = "path"), type |-> Primitive("string"), in |-> location]

Response(type) == [statusCode |-> "200", contentType |-> "application/json", type |-> type]

Operation(id, method, path, queryParams, type, pagination) ==
    [operationId |-> id, method |-> method, path |-> path, tags |-> <<"default">>,
     pathParams |-> <<>>, queryParams |-> queryParams, headerParams |-> <<>>,
     requestBody |-> Undefined, response |-> Response(type),
     pagination |-> pagination, deprecated |-> FALSE]

QueryParams(names) == [i \in 1..Len(names) |-> Param(names[i], "query")]

\* Query parameter names: two of each name Set that has two, and one that is in
\* none of them.
QueryNames == {"cursor", "after", "offset", "skip", "limit", "page", "p", "q"}
QueryLists == DistinctSeqsUpTo(QueryNames, MaxQueryParams)

\* A few query parameter lists, one or two for each outcome of the strategies.
QuerySamples ==
    {<<>>, <<"q">>, <<"cursor">>, <<"q", "after">>, <<"offset", "limit">>,
     <<"skip">>, <<"limit">>, <<"page">>, <<"p", "skip">>}

\* Properties of a nested pagination-metadata object.
NestedProps ==
    {<<>>, <<Property("nextCursor", Primitive("string"))>>,
     <<Property("total", Primitive("integer"))>>,
     <<Property("total", Primitive("integer")), Property("nextCursor", Primitive("string"))>>}

\* Properties a response object is built from: items fields (array or not),
\* a cursor field, a page-count field, and metadata containers.
ResponseProps ==
    {Property("items", Array(Primitive("string"))),
     Property("items", Primitive("integer")),
     Property("data", Array(Primitive("string"))),
     Property("hasMore", Primitive("boolean")),
     Property("totalPages", Primitive("integer")),
     Property("meta", Primitive("string"))}
    \cup {Property(c, Object(n)) : c \in {"meta", "pageInfo", "pagination"}, n \in NestedProps}

ResponseTypes ==
    {Primitive("unknown"), Array(Primitive("string"))}
    \cup {Object(ps) : ps \in {s \in SeqsUpTo(ResponseProps, MaxProps) :
                                 \A i, j \in 1..Len(s) : i # j => s[i].name # s[j].name}}

\* A few response types, one for each way the response shape matters.
ResponseSamples ==
    {Primitive("unknown"),
     Array(Primitive("string")),
     Object(<<Property("id", Primitive("string"))>>),
     Object(<<Property("items", Array(Primitive("string"))),
              Property("nextCursor", Primitive("string"))>>),
     Object(<<Property("data", Array(Primitive("string"))),
              Property("totalPages", Primitive("integer"))>>),
     Object(<<Property("records", Array(Primitive("string"))),
              Property("meta", Object(<<Property("nextToken", Primitive("string"))>>))>>)}

NoSpecVars ==
    /\ types = Unused /\ circular = Unused /\ visitedTypes = Unused
    /\ spec = Unused /\ applied = Unused /\ reapplied = Unused
    /\ doc = Unused /\ parsed = Unused
    /\ invoked = Unused /\ arg = Unused /\ result = Unused

\* Every query parameter list, against the sample responses.
InitDetect ==
    /\ pc = "start"
    /\ op \in {Operation("listItems", "GET", "/items", QueryParams(q), r, Undefined)
                 : q \in QueryLists, r \in ResponseSamples}
    /\ detected = Unused
    /\ NoSpecVars
    /\ NoWatch

\* Every response type, against the sample query parameter lists.
InitPaths ==
    /\ pc = "start"
    /\ op \in {Operation("listItems", "GET", "/items", QueryParams(q), r, Undefined)
                 : q \in QuerySamples, r \in ResponseTypes}
    /\ detected = Unused
    /\ NoSpecVars
    /\ NoWatch

Detect ==
    /\ pc = "start"
    /\ detected' = detectPagination(op)
    /\ pc' = "done"
    /\ UNCHANGED <<watchVars, visitedTypes, types, circular, op, spec, applied, reapplied, doc, parsed, invoked, arg, result>>

NextDetect == Detect

SpecDetect == InitDetect /\ [][NextDetect]_vars
SpecPaths == InitPaths /\ [][NextDetect]_vars

\* Pagination info a caller attached; no heuristic produces it.
SuppliedPagination == PaginationInfo("page-number", "pg", <<"pagination", "totalPages">>, <<"entries">>)

OperationMethods ==
    {"GET", "POST", "PUT", "DELETE", "PATCH", "HEAD", "OPTIONS", "QUERY", "MUTATION", "SUBSCRIPTION"}

CursorResponse ==
    Object(<<Property("items", Array(Primitive("string"))), Property("nextCursor", Primitive("string"))>>)

\* For each method: an operation the heuristics classify as cursor-paginated,
\* the same one carrying caller-supplied pagination, and one with an offset
\* parameter only.
SpecOperations ==
    {Operation("op", m, "/items", QueryParams(<<"pg", "cursor">>), CursorResponse, pg)
        : m \in OperationMethods, pg \in {Undefined, SuppliedPagination}}
    \cup {Operation("op", m, "/items", QueryParams(<<"offset">>), CursorResponse, Undefined)
        : m \in OperationMethods}

ApiSpec(operations) ==
    [title |-> "Test", baseUrl |-> "", version |-> "1.0.0", operations |-> operations, types |-> <<>>]

InitApply ==
    /\ pc = "start"
    /\ spec \in {ApiSpec(ops) : ops \in SeqsUpTo(SpecOperations, MaxOps)}
    /\ applied = Unused /\ reapplied = Unused
    /\ types = Unused /\ circular = Unused /\ visitedTypes = Unused
    /\ op = Unused /\ detected = Unused
    /\ doc = Unused /\ parsed = Unused
    /\ invoked = Unused /\ arg = Unused /\ result = Unused
    /\ NoWatch

\* applyPaginationDetection(spec)
Apply ==
    /\ pc = "start"
    /\ applied' = applyPaginationDetection(spec)
    /\ pc' = "applied"
    /\ UNCHANGED <<watchVars, visitedTypes, types, circular, op, detected, spec, reapplied, doc, parsed, invoked, arg, result>>

\* applyPaginationDetection on the spec the first call returned
Reapply ==
    /\ pc = "applied"
    /\ reapplied' = applyPaginationDetection(applied)
    /\ pc' = "reapplied"
    /\ UNCHANGED <<watchVars, visitedTypes, types, circular, op, detected, spec, applied, doc, parsed, invoked, arg, result>>

NextApply == Apply \/ Reapply

SpecApply == InitApply /\ [][NextApply]_vars


(***************************************************************************)
(* Documents parseSpec is run on                                           *)
(***************************************************************************)
\* Number of paths of a document.
MaxPaths == 2

\* The x-pagination extension of an operation object; the two paths are
\* dotted strings.
XPagination(strategy, pageParam, nextPagePath, itemsPath) ==
    [strategy |-> strategy, pageParam |-> pageParam,
     nextPagePath |-> nextPagePath, itemsPath |-> itemsPath]

SplitOnDots(str) == Split(str, ".")

ExtensionCursor == XPagination("cursor", "next_token", "meta.nextToken", "records")
ExtensionPageNumber ==
    XPagination("page-number", "pg", "pagination.totalPages", "entries")
Extensions == {ExtensionCursor, ExtensionPageNumber}

StringSchema == [SchemaObject EXCEPT !.type = "string"]
IntegerSchema == [SchemaObject EXCEPT !.type = "integer"]
ArrayOfStrings == [SchemaObject EXCEPT !.type = "array", !.items = StringSchema]

\* { type: 'object', properties: { <field>: array of strings } }
ListSchema(field) ==
    [SchemaObject EXCEPT !.type = "object", !.properties = Some(<<Entry(field, ArrayOfStrings)>>)]

JsonResponses(code, schema) ==
    <<Entry(code, [content |-> Some(<<Entry("application/json", [schema |-> schema])>>)])>>

QueryParameter(name, schema) == ParameterObject(name, "query", Undefined, schema)

OperationObject(id, parameters, responses, xPagination) ==
    [operationId |-> id, tags |-> <<"items">>, parameters |-> parameters,
     requestBody |-> Undefined, responses |-> responses, deprecated |-> FALSE,
     xPagination |-> xPagination]

\* Query parameter lists of the documents' operations.
DocParameters ==
    {<<>>,
     <<QueryParameter("next_token", StringSchema)>>,
     <<QueryParameter("pg", IntegerSchema), QueryParameter("cursor", StringSchema)>>,
     <<QueryParameter("offset", IntegerSchema), QueryParameter("limit", IntegerSchema)>>}

DocResponses ==
    {JsonResponses("200", ListSchema("records")),
     JsonResponses("201", ListSchema("entries")),
     <<Entry("204", [content |-> Undefined])>>}

ItemSchema ==
    [SchemaObject EXCEPT !.type = "object",
                         !.properties = Some(<<Entry("id", StringSchema)>>),
                         !.required = Some(<<"id">>)]

\* Operation objects with and without an explicit id and an extension.
GetOperations ==
    {OperationObject(id, ps, rs, x) :
        id \in {Undefined, Some("listItems")}, ps \in DocParameters,
        rs \in DocResponses, x \in Extensions \cup {Undefined}}

PostOperations ==
    {[OperationObject(Undefined, <<QueryParameter("cursor", StringSchema)>>,
                      JsonResponses("200", ListSchema("records")), x)
        EXCEPT !.requestBody =
            [required |-> Boolean(TRUE),
             content |-> <<Entry("application/json", [schema |-> ItemSchema])>>]]
        : x \in {Undefined, ExtensionCursor}}

\* A path's own parameters: a path parameter for each {name} segment.
PathParameters(path) ==
    LET templated == SelectSeq(PathSegments(path), LAMBDA seg : CharAt(seg, 1) = "{")
    IN  [i \in 1..Len(templated) |->
            ParameterObject(RemoveChars(templated[i], {"{", "}"}, 1), "path", Boolean(TRUE),
                            StringSchema)]

PathItems(path) ==
    {[parameters |-> PathParameters(path), operations |-> <<Entry("get", g)>>]
        : g \in GetOperations}
    \cup {[parameters |-> PathParameters(path), operations |-> <<Entry("post", p), Entry("get", g)>>]
        : p \in PostOperations,
          g \in {OperationObject(Undefined, <<QueryParameter("next_token", StringSchema)>>,
                                 JsonResponses("200", ListSchema("records")), ExtensionCursor)}}
    \cup {[parameters |-> PathParameters(path), operations |-> <<>>]}

\* A few of the path items: no operation, a plain GET, a GET with each
\* extension, a POST before a GET.
FewPathItems(path) ==
    {item \in PathItems(path) :
        \/ Len(item.operations) # 1
        \/ /\ item.operations[1].value.operationId = Undefined
           /\ item.operations[1].value.parameters =
                  <<QueryParameter("pg", IntegerSchema), QueryParameter("cursor", StringSchema)>>
           /\ item.operations[1].value.responses = JsonResponses("200", ListSchema("records"))}

\* /items, /items/{id}, /users, /users/{id}, ...
DocPath(n) ==
    LET word == IF n \in {1, 2} THEN "/items" ELSE "/users"
    IN  IF n % 2 = 1 THEN word ELSE word \o "/{id}"

RECURSIVE PathEntries(_)
\* The paths objects with the first n paths: every path item on the first
\* path, a few on the others.
PathEntries(n) ==
    IF n = 0 THEN {<<>>}
    ELSE {Append(rest, Entry(DocPath(n), item)) :
            rest \in PathEntries(n - 1),
            item \in IF n = 1 THEN PathItems(DocPath(n)) ELSE FewPathItems(DocPath(n))}

Document(openapi, paths) ==
    [openapi |-> openapi,
     info |-> [title |-> Some("Test"), version |-> Some("1.0.0")],
     servers |-> <<>>,
     paths |-> paths,
     schemas |-> <<Entry("Item", ItemSchema)>>,
     keyOrder |-> (IF openapi = Undefined THEN <<>> ELSE <<"openapi">>)
                  \o <<"info", "paths", "components">>]

Versions == {Some("3.0.3"), Some("3.1.0"), Some("1.3"), Undefined}

Documents ==
    {Document(v, ps) : v \in Versions, ps \in UNION {PathEntries(n) : n \in 1..(MaxPaths - 1)}}
    \cup {Document(Some("3.0.3"), ps) : ps \in PathEntries(MaxPaths)}

InitParse ==
    /\ pc = "start"
    /\ doc \in Documents
    /\ parsed = Unused /\ invoked = <<>>
    /\ arg = Unused /\ result = Unused
    /\ types = Unused /\ circular = Unused /\ visitedTypes = Unused
    /\ op = Unused /\ detected = Unused
    /\ spec = Unused /\ applied = Unused /\ reapplied = Unused
    /\ NoWatch

\* parseSpec(doc)
ParseSpec ==
    /\ pc = "start"
    /\ parsed' = parseSpec(doc).value
    /\ invoked' = parseSpec(doc).invoked
    /\ pc' = "parsed"
    /\ UNCHANGED <<watchVars, visitedTypes, types, circular, op, detected, spec, applied, reapplied, doc, arg, result>>

NextParse == ParseSpec

SpecParse == InitParse /\ [][NextParse]_vars


(***************************************************************************)
(* Inputs the dispatcher is run on                                         *)
(***************************************************************************)
\* Number of keys of an input object besides those the predicates look at.
MaxExtraKeys == 6

ExtraKeys == <<"foo", "baz", "qux", "k4", "k5", "k6", "k7", "k8">>

OpenapiValues ==
    {Undefined, Some("3.0.0"), Some("3.1.0"), Some("30"), Some("2.0"), Some(""), NumberValue(3)}
SwaggerValues == {Undefined, Some("2.0"), Some("2"), Some("2.0.0"), NumberValue(2)}
SchemaValues == {Undefined, PingSchema}
DataValues ==
    {Undefined, Some("rows"), NumberValue(1), Null,
     [keyOrder |-> <<"rows">>, rows |-> NumberValue(1)],
     [keyOrder |-> <<"__schema">>] @@ ("__schema" :> PingSchema)}

\* An object with the given fields; it is a complete document when it has an
\* openapi or a swagger field.  The extra keys come first or last.
InputObject(oa, sw, schema, data, extras, extrasFirst) ==
    LET isDoc == oa # Undefined \/ sw # Undefined
        own == (IF oa # Undefined THEN <<"openapi">> ELSE <<>>)
               \o (IF sw # Undefined THEN <<"swagger">> ELSE <<>>)
               \o (IF isDoc THEN <<"info", "paths">> ELSE <<>>)
               \o (IF schema # Undefined THEN <<"__schema">> ELSE <<>>)
               \o (IF data # Undefined THEN <<"data">> ELSE <<>>)
    IN  [openapi |-> oa, swagger |-> sw, data |-> data,
         info |-> IF isDoc THEN [title |-> Some("Test"), version |-> Some("1.0.0")] ELSE Undefined,
         servers |-> <<>>, paths |-> <<>>, schemas |-> <<>>,
         host |-> Undefined, basePath |-> Undefined, schemes |-> <<>>, produces |-> Undefined,
         definitions |-> <<>>,
         keyOrder |-> IF extrasFirst THEN extras \o own ELSE own \o extras]
        @@ ("__schema" :> schema)

InputObjects ==
    {InputObject(oa, sw, schema, data, SubSeq(ExtraKeys, 1, n), first) :
        oa \in OpenapiValues, sw \in SwaggerValues, schema \in SchemaValues,
        data \in DataValues, n \in {0, 2, MaxExtraKeys}, first \in BOOLEAN}

RECURSIVE Repeat(_, _)
Repeat(str, n) == IF n = 0 THEN "" ELSE str \o Repeat(str, n - 1)

InputTexts ==
    {PingSdl, "  \n" \o PingSdl, DateSdl, "type Query {", "typeQuery", "type", "schema.graphql",
     "api.yaml", "API.JSON", "broken.json", "spec.conf", "notes.txt", "missing.yaml",
     "/does/not/exist.yaml", "a.b", "v1.0", "hello world", "42", "null", "",
     JsonOpenApiText, YamlSwaggerText}
    \cup {Repeat("x", n) : n \in {PreviewChars - 1, PreviewChars, PreviewChars + 1, PreviewChars + 20}}

Inputs == InputObjects \cup {StringValue(t) : t \in InputTexts}

InitDispatch ==
    /\ pc = "start"
    /\ doc \in Inputs
    /\ parsed = Unused /\ invoked = <<>>
    /\ arg = Unused /\ result = Unused
    /\ types = Unused /\ circular = Unused /\ visitedTypes = Unused
    /\ op = Unused /\ detected = Unused
    /\ spec = Unused /\ applied = Unused /\ reapplied = Unused
    /\ NoWatch

SpecDispatch == InitDispatch /\ [][NextParse]_vars

(***************************************************************************)
(* Schemas the two REST parsers convert                                    *)
(***************************************************************************)
\* Number of component schemas of a oneOf, anyOf or allOf.
MaxComposed == 2

Normalizers == {"openapi", "swagger"}

\* convertSchema of the named parser
convertSchemaOf(normalizer, schema) ==
    IF normalizer = "openapi" THEN convertSchema(schema) ELSE swaggerConvertSchema(schema)

mergeAllOfOf(normalizer, schemas) ==
    IF normalizer = "openapi" THEN mergeAllOf(schemas) ELSE swaggerMergeAllOf(schemas)

IdSchema ==
    [SchemaObject EXCEPT !.type = "object", !.properties = Some(<<Entry("id", StringSchema)>>)]

\* Component lists: absent, empty, and up to MaxComposed components, with and
\* without a reference among them.
ComposedLists ==
    {Undefined, Some(<<>>)}
    \cup {Some(SubSeq(<<IdSchema, IntegerSchema, StringSchema>>, 1, n)) : n \in 1..MaxComposed}
    \cup {Some(<<RefObject("Item")>> \o SubSeq(<<StringSchema, IdSchema>>, 1, n))
            : n \in 0..(MaxComposed - 1)}

SchemaTypes == {"", "array", "object", "string", "integer", "null", "file"}

Schemas ==
    {Undefined}
    \cup {[SchemaObject EXCEPT !.type = t, !.oneOf = one, !.anyOf = any, !.allOf = all,
                               !.enum = en, !.properties = ps, !.additionalProperties = ap,
                               !.items = it, !.nullable = nu]
            : t \in SchemaTypes,
              one \in {Undefined, Some(<<>>), Some(<<StringSchema, IntegerSchema>>)},
              any \in {Undefined, Some(<<IdSchema>>)},
              all \in ComposedLists,
              en \in {Undefined, Some(<<>>), Some(<<"a", "b">>)},
              ps \in {Undefined, Some(<<>>), Some(<<Entry("id", StringSchema)>>)},
              ap \in {Undefined, Boolean(TRUE), Boolean(FALSE), StringSchema},
              it \in {Undefined, StringSchema},
              nu \in BOOLEAN}

NoOtherVars ==
    /\ types = Unused /\ circular = Unused /\ visitedTypes = Unused
    /\ op = Unused /\ detected = Unused
    /\ spec = Unused /\ applied = Unused /\ reapplied = Unused
    /\ doc = Unused /\ parsed = Unused /\ invoked = Unused
    /\ NoWatch

InitSchema ==
    /\ pc = "start"
    /\ arg \in {[normalizer |-> n, schema |-> sch] : n \in Normalizers, sch \in Schemas}
    /\ result = Unused
    /\ NoOtherVars

\* convertSchema(schema) of either parser
ConvertSchema ==
    /\ pc = "start"
    /\ result' = convertSchemaOf(arg.normalizer, arg.schema)
    /\ pc' = "converted"
    /\ UNCHANGED <<watchVars, visitedTypes, types, circular, op, detected, spec, applied, reapplied, doc, parsed,
                   invoked, arg>>

NextSchema == ConvertSchema

SpecSchema == InitSchema /\ [][NextSchema]_vars

(***************************************************************************)
(* allOf compositions the two REST parsers merge                           *)
(***************************************************************************)
\* Number of component schemas of an allOf composition.
MaxComponents == 2

ComponentProperties ==
    {Undefined, Some(<<>>),
     Some(<<Entry("a", StringSchema)>>), Some(<<Entry("a", IntegerSchema)>>),
     Some(<<Entry("b", StringSchema)>>), Some(<<Entry("c", IntegerSchema)>>),
     Some(<<Entry("a", StringSchema), Entry("b", IntegerSchema)>>),
     Some(<<Entry("b", StringSchema), Entry("a", IntegerSchema)>>)}

ComponentRequired ==
    {Undefined, Some(<<>>), Some(<<"a">>), Some(<<"b">>), Some(<<"a", "b">>), Some(<<"c">>)}

\* Object schemas, with or without a type keyword, and a reference.
Components ==
    {[SchemaObject EXCEPT !.type = t, !.properties = ps, !.required = rq]
        : t \in {"object"}, ps \in ComponentProperties, rq \in ComponentRequired}
    \cup {RefObject("Item")}

InitAllOf ==
    /\ pc = "start"
    /\ arg \in {[normalizer |-> n, schema |-> [SchemaObject EXCEPT !.allOf = Some(cs)]]
                  : n \in Normalizers,
                    cs \in UNION {[1..k -> Components] : k \in 1..MaxComponents}}
    /\ result = Unused
    /\ NoOtherVars

SpecAllOf == InitAllOf /\ [][NextSchema]_vars

(***************************************************************************)
(* Parameter lists the two REST parsers merge                              *)
(***************************************************************************)
\* Length of the path-level and of the operation-level parameter list.
MaxParams == 2

ParamNames == {"id", "q:id"}
ParamLocations == {"query", "path"}

\* Parameters as each parser reads them; the schema or type distinguishes two
\* declarations with the same key.
ParametersOf(normalizer, typeNames) ==
    IF normalizer = "openapi"
    THEN {ParameterObject(n, l, Undefined, [SchemaObject EXCEPT !.type = t])
            : n \in ParamNames, l \in ParamLocations, t \in typeNames}
    ELSE {SwaggerParameter(n, l, Undefined, t)
            : n \in ParamNames, l \in ParamLocations, t \in typeNames}

mergeParametersOf(normalizer, pathParams, opParams) ==
    IF normalizer = "openapi" THEN mergeParameters(pathParams, opParams)
    ELSE swaggerMergeParameters(pathParams, opParams)

InitMerge ==
    /\ pc = "start"
    /\ \E n \in Normalizers :
          \E pp \in SeqsUpTo(ParametersOf(n, {"string", "integer"}), MaxParams),
             oo \in SeqsUpTo(ParametersOf(n, {"string", "integer"}), MaxParams) :
             arg = [normalizer |-> n, pathParams |-> pp, opParams |-> oo]
    /\ result = Unused
    /\ NoOtherVars

MergeParameters ==
    /\ pc = "start"
    /\ result' = mergeParametersOf(arg.normalizer, arg.pathParams, arg.opParams)
    /\ pc' = "merged"
    /\ UNCHANGED <<watchVars, visitedTypes, types, circular, op, detected, spec, applied, reapplied, doc, parsed,
                   invoked, arg>>

NextMerge == MergeParameters

SpecMerge == InitMerge /\ [][NextMerge]_vars

(***************************************************************************)
(* Graph schemas the graph normalizer is given as introspection results    *)
(***************************************************************************)
\* Number of fields of the query root type.
MaxFields == 2

FieldNames == {"user", "items", "node"}

\* What a root field returns and takes.
FieldShapes ==
    {Field(NamedType("String"), <<>>),
     Field(NamedType("A"), <<Argument("id", NonNull(NamedType("ID")))>>),
     Field(ListOf(NonNull(NamedType("B"))),
           <<Argument("filter", NamedType("In")), Argument("first", NamedType("Int"))>>),
     Field(NamedType("Query"), <<>>)}

\* Field lists with distinct names, as a schema requires.
FieldLists(names, shapes, n) ==
    {fs \in SeqsUpTo({Entry(nm, sh) : nm \in names, sh \in shapes}, n) :
        \A i, j \in 1..Len(fs) : fs[i].key = fs[j].key => i = j}

QueryFields == FieldLists(FieldNames, FieldShapes, MaxFields) \ {<<>>}
MutationFields ==
    {<<>>,
     <<Entry("user", Field(NamedType("String"), <<>>))>>,
     <<Entry("create", Field(NamedType("A"), <<Argument("id", NonNull(NamedType("ID")))>>))>>}
SubscriptionFields == {<<>>, <<Entry("changed", Field(NamedType("A"), <<>>))>>}

\* What the fields of the object types A and B and of the input object In
\* refer to: a scalar, themselves, each other, or the query root.
ObjectFieldTypes == {NamedType("String"), NamedType("A"), NamedType("B"), NamedType("Query")}
InputFieldTypes == {NamedType("String"), NamedType("In")}

\* A schema with a query root and, when they have fields, a mutation and a
\* subscription root.
GraphSchema(queryFields, mutationFields, subscriptionFields, aType, bType, inType) ==
    [typeMap |->
        <<Entry("Query", ObjectDef("Query", queryFields))>>
        \o (IF mutationFields = <<>> THEN <<>>
            ELSE <<Entry("Mutation", ObjectDef("Mutation", mutationFields))>>)
        \o (IF subscriptionFields = <<>> THEN <<>>
            ELSE <<Entry("Subscription", ObjectDef("Subscription", subscriptionFields))>>)
        \o <<Entry("A", ObjectDef("A", <<Entry("b", Field(aType, <<>>)),
                                         Entry("role", Field(NamedType("Role"), <<>>))>>)),
             Entry("B", ObjectDef("B", <<Entry("a", Field(bType, <<>>))>>)),
             Entry("AB", UnionDef("AB", <<"A", "B">>)),
             Entry("Role", EnumDef("Role", <<"ADMIN", "USER">>)),
             Entry("In", InputObjectDef("In", <<Entry("self", Field(inType, <<>>))>>)),
             Entry("String", ScalarDef("String")),
             Entry("ID", ScalarDef("ID")),
             Entry("Int", ScalarDef("Int"))>>,
     queryType |-> Some("Query"),
     mutationType |-> IF mutationFields = <<>> THEN Undefined ELSE Some("Mutation"),
     subscriptionType |-> IF subscriptionFields = <<>> THEN Undefined ELSE Some("Subscription")]

\* The introspection result of a schema.
Introspection(schema) == InputObject(Undefined, Undefined, schema, Undefined, <<>>, FALSE)

InitGraph ==
    /\ pc = "start"
    /\ \E qf \in QueryFields, mf \in MutationFields, sf \in SubscriptionFields,
          aType \in ObjectFieldTypes, bType \in ObjectFieldTypes, inType \in InputFieldTypes :
          doc = Introspection(GraphSchema(qf, mf, sf, aType, bType, inType))
    /\ parsed = Unused /\ invoked = <<>>
    /\ arg = Unused /\ result = Unused
    /\ types = Unused /\ circular = Unused /\ visitedTypes = Unused
    /\ op = Unused /\ detected = Unused
    /\ spec = Unused /\ applied = Unused /\ reapplied = Unused
    /\ NoWatch

SpecGraph == InitGraph /\ [][NextParse]_vars

(***************************************************************************)
(* Naming (src/utils/naming.ts)                                            *)
(***************************************************************************)
Digits == {"0", "1", "2", "3", "4", "5", "6", "7", "8", "9"}
\* [a-zA-Z0-9]
IsAlnum(c) == c # "" /\ (IsLetter(c) \/ c \in Digits)

RECURSIVE PascalFrom(_, _, _)
\* The three replacements of toPascalCase in one pass from the i-th character
\* on: a run of other characters is dropped and the character after it is
\* upper-cased, as is the first character.
PascalFrom(str, i, capitalize) ==
    IF i > Len(str) THEN ""
    ELSE IF ~IsAlnum(CharAt(str, i)) THEN PascalFrom(str, i + 1, TRUE)
    ELSE (IF capitalize THEN UpperChar(CharAt(str, i)) ELSE CharAt(str, i))
         \o PascalFrom(str, i + 1, FALSE)

toPascalCase(str) == PascalFrom(str, 1, TRUE)

\* pascal[0].toLowerCase() throws a TypeError when pascal is empty.
toCamelCaseThrows(str) == toPascalCase(str) = ""

toCamelCase(str) ==
    LET pascal == toPascalCase(str)
    IN  LowerChar(CharAt(pascal, 1)) \o Slice(pascal, 1, Len(pascal))

(***************************************************************************)
(* Zod emitter (src/type-gen/zod-emitter.ts).  The types of the model      *)
(* carry no description, and enum values are strings.                      *)
(***************************************************************************)
schemaVarName(name) == toCamelCase(name) \o "Schema"

\* `${base}` with the refinement of a known format
applyStringFormat(base, format) ==
    CASE format = "date-time" -> base \o ".datetime()"
      [] format = "email" -> base \o ".email()"
      [] format = "uuid" -> base \o ".uuid()"
      [] format \in {"uri", "url"} -> base \o ".url()"
      [] OTHER -> base

emitZodPrimitive(type) ==
    CASE type.type = "string" ->
            IF "format" \in DOMAIN type /\ type.format # ""
            THEN applyStringFormat("z.string()", type.format) ELSE "z.string()"
      [] type.type = "number" -> "z.number()"
      [] type.type = "integer" -> "z.number().int()"
      [] type.type = "boolean" -> "z.boolean()"
      [] type.type = "null" -> "z.null()"
      [] type.type = "unknown" -> "z.unknown()"
      [] OTHER -> "undefined"

indent(str) ==
    LET lines == Split(str, "\n")
    IN  JoinWith([i \in 1..Len(lines) |-> "  " \o lines[i]], "\n", 1)

EscapeChar(c) == IF c = "\\" THEN "\\\\" ELSE IF c = "'" THEN "\\'" ELSE c
escapeString(value) == MapChars(value, EscapeChar, 1)

\* /^[a-zA-Z_$][a-zA-Z0-9_$]*$/
IsIdentifier(name) ==
    /\ Len(name) > 0
    /\ IsLetter(CharAt(name, 1)) \/ CharAt(name, 1) \in {"_", "$"}
    /\ \A i \in 2..Len(name) : IsAlnum(CharAt(name, i)) \/ CharAt(name, i) \in {"_", "$"}

safePropName(name) == IF IsIdentifier(name) THEN name ELSE "'" \o escapeString(name) \o "'"

\* A ref to a circular type is wrapped in z.lazy.
emitZodRef(type, circularTypes) ==
    LET varName == schemaVarName(type.name)
    IN  IF type.name \in circularTypes THEN "z.lazy(() => " \o varName \o ")" ELSE varName

emitZodEnum(type) ==
    IF Len(type.values) = 0 THEN "z.never()"
    ELSE "z.enum([" \o JoinWith([i \in 1..Len(type.values) |->
                                    "'" \o escapeString(type.values[i]) \o "'"], ", ", 1) \o "])"

RECURSIVE emitZodType(_, _)
emitZodProperty(prop, circularTypes) ==
    safePropName(prop.name) \o ": " \o emitZodType(prop.type, circularTypes)
    \o (IF prop.required THEN "" ELSE ".optional()") \o ","

emitZodObject(type, circularTypes) ==
    LET ap == type.additionalProperties IN
    IF Len(type.properties) = 0 /\ ~Truthy(ap)
    THEN "z.record(z.string(), z.unknown())"
    ELSE LET members == [i \in 1..Len(type.properties) |->
                            emitZodProperty(type.properties[i], circularTypes)]
             suffix == IF ap = Undefined \/ ap = Boolean(FALSE) THEN ""
                       ELSE IF ap = Boolean(TRUE) THEN ".catchall(z.unknown())"
                       ELSE ".catchall(" \o emitZodType(ap, circularTypes) \o ")"
         IN  IF Len(members) = 0 THEN "z.object({})" \o suffix
             ELSE "z.object({\n"
                  \o JoinWith([i \in 1..Len(members) |-> indent(members[i])], "\n", 1)
                  \o "\n})" \o suffix

emitZodArray(type, circularTypes) == "z.array(" \o emitZodType(type.items, circularTypes) \o ")"

emitZodUnion(type, circularTypes) ==
    IF Len(type.variants) = 0 THEN "z.never()"
    ELSE IF Len(type.variants) = 1 THEN emitZodType(type.variants[1], circularTypes)
    ELSE "z.union(["
         \o JoinWith([i \in 1..Len(type.variants) |-> emitZodType(type.variants[i], circularTypes)],
                     ", ", 1)
         \o "])"

\* circularTypes is the module-level _circularTypes at the time of the call.
emitZodType(type, circularTypes) ==
    CASE type.kind = "primitive" -> emitZodPrimitive(type)
      [] type.kind = "object" -> emitZodObject(type, circularTypes)
      [] type.kind = "array" -> emitZodArray(type, circularTypes)
      [] type.kind = "enum" -> emitZodEnum(type)
      [] type.kind = "union" -> emitZodUnion(type, circularTypes)
      [] type.kind = "ref" -> emitZodRef(type, circularTypes)
      [] OTHER -> "undefined"

emitNamedSchema(name, type, circularTypes) ==
    "export const " \o schemaVarName(name) \o " = " \o emitZodType(type, circularTypes) \o "\n"

emitOperationResponseSchema(operation, circularTypes) ==
    "export const " \o toCamelCase(operation.operationId) \o "ResponseSchema = "
    \o emitZodType(operation.response.type, circularTypes) \o "\n"

\* The dash of the fifth line is written "-" here.
fileHeader(apiSpec) ==
    JoinWith(<<"/* eslint-disable */",
               "/* tslint:disable */",
               "/**",
               " * Auto-generated Zod schemas for " \o apiSpec.title \o " (v" \o apiSpec.version \o ").",
               " * DO NOT EDIT - this file is regenerated on every run.",
               " */",
               "">>, "\n", 1)

\* The names emission passes to toCamelCase: registry names, the names of the
\* refs inside the emitted types, operationIds.
CamelCased(apiSpec) ==
    {apiSpec.types[i].name : i \in 1..Len(apiSpec.types)}
    \cup UNION {Range(collectRefs(apiSpec.types[i].type, <<>>)) : i \in 1..Len(apiSpec.types)}
    \cup {apiSpec.operations[i].operationId : i \in 1..Len(apiSpec.operations)}
    \cup UNION {Range(collectRefs(apiSpec.operations[i].response.type, <<>>))
                   : i \in 1..Len(apiSpec.operations)}

emitThrows(apiSpec) == \E name \in CamelCased(apiSpec) : toCamelCaseThrows(name)

\* A set that also keeps what the module-level Set held before the call.
circularTypesAtStart_Accumulate(circularTypes, apiSpec) ==
    circularTypes \cup detectCircularTypes(apiSpec.types)

\* _circularTypes = detectCircularTypes(spec.types)
circularTypesAtStart(circularTypes, apiSpec) == detectCircularTypes(apiSpec.types)

\* emitZodSchemas(spec), called with _circularTypes = circularTypes: what it
\* returns or throws, and _circularTypes afterwards.  The reset at the end is
\* not reached when emission throws.
emitZodSchemas(apiSpec, circularTypes) ==
    LET during == circularTypesAtStart(circularTypes, apiSpec) IN
    IF emitThrows(apiSpec)
    THEN [outcome |-> [threw |-> "TypeError"], circularTypes |-> during]
    ELSE [outcome |->
            [returned |->
                JoinWith(<<fileHeader(apiSpec), "import { z } from 'zod'", "">>
                         \o [i \in 1..Len(apiSpec.types) |->
                                emitNamedSchema(apiSpec.types[i].name, apiSpec.types[i].type, during)]
                         \o [i \in 1..Len(apiSpec.operations) |->
                                emitOperationResponseSchema(apiSpec.operations[i], during)],
                         "\n", 1)],
          circularTypes |-> {}]

(***************************************************************************)
(* Calls of graphqlParser.parse and emitZodSchemas in one process.  The    *)
(* body of parse holds no await and emitZodSchemas is synchronous, so a    *)
(* call runs from its first statement to its return or throw before any    *)
(* other call starts; the calls of concurrent callers take place in any    *)
(* order.                                                                  *)
(***************************************************************************)
\* Number of calls.
MaxCalls == 2

\* graphqlParser.parse(input), called with the module-level Set = visited:
\* what it returns or throws, and the Set afterwards.  The Set is cleared
\* before the first conversion and after the last; a throw of buildSchema
\* comes before the first clear().
graphqlParserParse(input, visited) ==
    LET value == graphqlParse(input) IN
    IF "error" \in DOMAIN value
    THEN [outcome |-> [threw |-> value.error], visitedTypes |-> visited]
    ELSE [outcome |-> [returned |-> value], visitedTypes |-> {}]

CircularRegistry ==
    <<[name |-> "A", type |-> Object(<<Property("b", Ref("B"))>>)],
      [name |-> "B", type |-> Object(<<Property("a", Ref("A"))>>)]>>
SelfRegistry ==
    <<[name |-> "A", type |-> Object(<<Property("next", Array(Ref("A")))>>)]>>
PlainRegistry ==
    <<[name |-> "A", type |-> Object(<<Property("id", Primitive("string"))>>)],
      [name |-> "B", type |-> Object(<<Property("a", Ref("A"))>>)]>>

\* Specs for different APIs; an operationId without a letter or digit makes
\* toCamelCase throw after the named types have been emitted.
EmitSpecs ==
    {[title |-> "Test", baseUrl |-> "", version |-> "1.0.0",
      operations |-> <<Operation(id, "GET", "/a", <<>>, type, Undefined)>>,
      types |-> reg]
        : id \in {"getA", "_"}, type \in {Ref("A"), Primitive("string")},
          reg \in {CircularRegistry, SelfRegistry, PlainRegistry}}

ParseInputs ==
    {Introspection(GraphSchema(<<Entry("user", Field(NamedType("A"), <<>>))>>, <<>>, <<>>,
                               aType, NamedType("A"), NamedType("In")))
        : aType \in {NamedType("A"), NamedType("B"), NamedType("Query")}}
    \cup {StringValue("type Query {")}

Calls ==
    {[kind |-> "parse", input |-> input] : input \in ParseInputs}
    \cup {[kind |-> "emit", input |-> apiSpec] : apiSpec \in EmitSpecs}

InitTracking ==
    /\ \E n \in 1..MaxCalls :
          /\ arg \in [1..n -> Calls]
          /\ pc = [c \in 1..n |-> "pending"]
          /\ result = [c \in 1..n |-> Unused]
    /\ visitedTypes = {}
    /\ circular = {}
    /\ types = Unused /\ op = Unused /\ detected = Unused
    /\ spec = Unused /\ applied = Unused /\ reapplied = Unused
    /\ doc = Unused /\ parsed = Unused /\ invoked = Unused
    /\ NoWatch

\* await graphqlParser.parse(input)
GraphqlParserParse ==
    \E c \in DOMAIN pc :
        /\ pc[c] = "pending" /\ arg[c].kind = "parse"
        /\ LET call == graphqlParserParse(arg[c].input, visitedTypes)
           IN  /\ result' = [result EXCEPT ![c] = call.outcome]
               /\ visitedTypes' = call.visitedTypes
        /\ pc' = [pc EXCEPT ![c] = "done"]
        /\ UNCHANGED <<watchVars, types, circular, op, detected, spec, applied, reapplied, doc, parsed,
                       invoked, arg>>

\* emitZodSchemas(spec)
EmitZodSchemas ==
    \E c \in DOMAIN pc :
        /\ pc[c] = "pending" /\ arg[c].kind = "emit"
        /\ LET call == emitZodSchemas(arg[c].input, circular)
           IN  /\ result' = [result EXCEPT ![c] = call.outcome]
               /\ circular' = call.circularTypes
        /\ pc' = [pc EXCEPT ![c] = "done"]
        /\ UNCHANGED <<watchVars, types, visitedTypes, op, detected, spec, applied, reapplied, doc, parsed,
                       invoked, arg>>

NextTracking == GraphqlParserParse \/ EmitZodSchemas

SpecTracking == InitTracking /\ [][NextTracking]_vars

(***************************************************************************)
(* Cache key factories (src/utils/cache-keys.ts, src/utils/naming.ts)      *)
(***************************************************************************)
\* /^(api|v\d+)$/ without the i flag
IsPrefixSegment_CaseSensitive(seg) ==
    \/ seg = "api"
    \/ /\ Len(seg) >= 2 /\ CharAt(seg, 1) = "v"
       /\ \A i \in 2..Len(seg) : CharAt(seg, i) \in Digits

\* /^(api|v\d+)$/i
IsPrefixSegment(seg) ==
    LET lower == ToLowerCase(seg) IN
    \/ lower = "api"
    \/ /\ Len(lower) >= 2 /\ CharAt(lower, 1) = "v"
       /\ \A i \in 2..Len(lower) : CharAt(lower, i) \in Digits

extractResource(path) ==
    LET segments == SelectSeq(Split(path, "/"), LAMBDA seg : seg # "" /\ ~StartsWith(seg, "{"))
        meaningful == SelectSeq(segments, LAMBDA seg : ~IsPrefixSegment(seg))
    IN  IF Len(meaningful) > 0 THEN meaningful[Len(meaningful)]
        ELSE IF Len(segments) > 0 THEN segments[Len(segments)]
        ELSE "unknown"

isDetailEndpoint(path) ==
    LET segments == SelectSeq(Split(path, "/"), LAMBDA seg : seg # "")
    IN  Len(segments) > 0 /\ StartsWith(segments[Len(segments)], "{")

RECURSIVE resourceMapFrom(_, _, _)
\* The first loop of deriveCacheKeyFactories from the i-th operation on;
\* resourceMap is the Map in insertion order, <<[resource, hasList, hasDetail]>>.
resourceMapFrom(operations, i, resourceMap) ==
    IF i > Len(operations) THEN resourceMap
    ELSE IF operations[i].method \notin {"GET", "QUERY"}
    THEN resourceMapFrom(operations, i + 1, resourceMap)
    ELSE LET resource == extractResource(operations[i].path)
             detail == isDetailEndpoint(operations[i].path)
             known == \E k \in 1..Len(resourceMap) : resourceMap[k].resource = resource
         IN  resourceMapFrom(operations, i + 1,
                IF known
                THEN [k \in 1..Len(resourceMap) |->
                         IF resourceMap[k].resource = resource
                         THEN [resource |-> resource,
                               hasList |-> resourceMap[k].hasList \/ ~detail,
                               hasDetail |-> resourceMap[k].hasDetail \/ detail]
                         ELSE resourceMap[k]]
                ELSE Append(resourceMap, [resource |-> resource, hasList |-> ~detail,
                                          hasDetail |-> detail]))

\* What deriveCacheKeyFactories(operations) returns or throws: toCamelCase
\* throws in the second loop for a resource without a letter or digit.
deriveCacheKeyFactories(operations) ==
    LET resourceMap == resourceMapFrom(operations, 1, <<>>) IN
    IF \E k \in 1..Len(resourceMap) : toCamelCaseThrows(resourceMap[k].resource)
    THEN [threw |-> "TypeError"]
    ELSE [returned |->
            [k \in 1..Len(resourceMap) |->
                [resource |-> toCamelCase(resourceMap[k].resource),
                 variableName |-> toCamelCase(resourceMap[k].resource) \o "Keys",
                 rootKey |-> <<resourceMap[k].resource>>,
                 hasList |-> resourceMap[k].hasList,
                 hasDetail |-> resourceMap[k].hasDetail]]]

\* Number of operations handed to deriveCacheKeyFactories.
MaxKeyOps == 3

KeyMethods == {"GET", "QUERY", "POST"}
\* REST paths and graph field names, as the normalizers set them.
KeyPaths == {"/pets", "/pets/{petId}", "/api/v1/users/{id}", "/users", "pets", "_"}

KeyOperations ==
    {Operation("op", m, path, <<>>, Primitive("string"), Undefined)
        : m \in KeyMethods, path \in KeyPaths}

InitCacheKeys ==
    /\ pc = "start"
    /\ \E n \in 0..MaxKeyOps : arg \in [1..n -> KeyOperations]
    /\ result = Unused
    /\ NoOtherVars

DeriveCacheKeyFactories ==
    /\ pc = "start"
    /\ result' = deriveCacheKeyFactories(arg)
    /\ pc' = "derived"
    /\ UNCHANGED <<watchVars, visitedTypes, types, circular, op, detected, spec, applied, reapplied, doc,
                   parsed, invoked, arg>>

NextCacheKeys == DeriveCacheKeyFactories

SpecCacheKeys == InitCacheKeys /\ [][NextCacheKeys]_vars

(***************************************************************************)
(* Paths handed to extractResource                                         *)
(***************************************************************************)
\* Number of segments of a path.
MaxSegments == 3

\* Names, placeholders, prefixes in both cases, near-prefixes and the empty
\* segment of a doubled or trailing slash.
Segments ==
    {"", "users", "posts", "{id}", "api", "API", "v1", "V22", "v", "vx", "v1beta", "apis"}

InitResource ==
    /\ pc = "start"
    /\ \E n \in 0..MaxSegments : \E segs \in [1..n -> Segments], lead \in {"", "/"} :
          arg = lead \o JoinWith(segs, "/", 1)
    /\ result = Unused
    /\ NoOtherVars

ExtractResource ==
    /\ pc = "start"
    /\ result' = extractResource(arg)
    /\ pc' = "extracted"
    /\ UNCHANGED <<watchVars, visitedTypes, types, circular, op, detected, spec, applied, reapplied, doc,
                   parsed, invoked, arg>>

NextResource == ExtractResource

SpecResource == InitResource /\ [][NextResource]_vars

(***************************************************************************)
(* Named schemas with circular references, as dereferencing with           *)
(* circular: 'ignore' leaves them: the reference objects of a cycle stay   *)
(* where they were.                                                        *)
(***************************************************************************)
\* Number of properties of the named schema.
MaxNodeProps == 2

\* { $ref: '#/components/schemas/Node' }
NodeRef == RefObject("Node")

NodePropertySchemas ==
    {StringSchema, NodeRef, ArrayOfStrings,
     [SchemaObject EXCEPT !.type = "array", !.items = NodeRef]}

\* Property lists with distinct names.
NodeProperties ==
    {ps \in SeqsUpTo({Entry(n, sch) : n \in {"id", "next", "children"},
                                     sch \in NodePropertySchemas}, MaxNodeProps) :
        \A i, j \in 1..Len(ps) : ps[i].key = ps[j].key => i = j}

\* The schema named Node.
NodeSchemas ==
    {[SchemaObject EXCEPT !.type = "object", !.properties = Some(ps),
                          !.additionalProperties = ap]
        : ps \in NodeProperties, ap \in {Undefined, NodeRef, StringSchema}}

InitCircular ==
    /\ pc = "start"
    /\ \E n \in Normalizers, sch \in NodeSchemas : arg = [normalizer |-> n, schema |-> sch]
    /\ result = Unused
    /\ NoOtherVars

SpecCircular == InitCircular /\ [][NextSchema]_vars

(***************************************************************************)
(* Calls of emitZodType from outside emitZodSchemas, among the other calls *)
(***************************************************************************)
TypeCalls == {[kind |-> "type", input |-> t] : t \in {Ref("A"), Array(Ref("B"))}}

InitEmit ==
    /\ \E n \in 1..MaxCalls :
          /\ arg \in [1..n -> Calls \cup TypeCalls]
          /\ pc = [c \in 1..n |-> "pending"]
          /\ result = [c \in 1..n |-> Unused]
    /\ visitedTypes = {}
    /\ circular = {}
    /\ types = Unused /\ op = Unused /\ detected = Unused
    /\ spec = Unused /\ applied = Unused /\ reapplied = Unused
    /\ doc = Unused /\ parsed = Unused /\ invoked = Unused
    /\ NoWatch

\* emitZodType(type): reads _circularTypes as the last emitZodSchemas call left it.
EmitZodType ==
    \E c \in DOMAIN pc :
        /\ pc[c] = "pending" /\ arg[c].kind = "type"
        /\ result' = [result EXCEPT ![c] = [returned |-> emitZodType(arg[c].input, circular)]]
        /\ pc' = [pc EXCEPT ![c] = "done"]
        /\ UNCHANGED <<watchVars, visitedTypes, types, circular, op, detected, spec, applied, reapplied,
                       doc, parsed, invoked, arg>>

NextEmit == GraphqlParserParse \/ EmitZodSchemas \/ EmitZodType

SpecEmit == InitEmit /\ [][NextEmit]_vars

(***************************************************************************)
(* The generate command in watch mode (src/cli.ts, src/utils/file-writer.ts) *)
(*                                                                         *)
(* The model starts where the action enters its try block, the fetcher     *)
(* strategy validated.  The options --clean and --prettier have their      *)
(* default, false.  The spec file is edited from outside; chokidar emits   *)
(* `change` for the edits it has not reported yet.  A call of runGenerate  *)
(* gives up control at its awaits: parseSpec, and each file written by     *)
(* writeFiles; the calls in flight interleave there.                       *)
(***************************************************************************)
\* Number of edits of the spec file after the program has started.
MaxEdits == 3

\* The files generateHooks returns.
GeneratedPaths == <<"types.ts", "hooks.ts">>

\* The content of the spec file: its revision, and whether parseSpec accepts it.
SpecContent(rev, valid) == [rev |-> rev, valid |-> valid]

Running == [state |-> "running"]
Exited(code, by) == [state |-> "exited", code |-> code, by |-> by]

\* Mutant of afterFailure: the change handler has no try/catch, and the
\* rejection ends the process as the one of the initial generation does.
afterFailure_Uncaught(initial) ==
    Exited(1, IF initial THEN "generate" ELSE "regenerate")

\* The catch blocks around runGenerate: the generate action logs the error and
\* calls process.exit(1), the change handler only logs it.
afterFailure(initial) ==
    IF initial THEN Exited(1, "generate") ELSE Running

\* A call of runGenerate: `initial` for the one of the generate action, the
\* step it is at, the revision parseSpec read, the index of the next file
\* writeFiles writes.
Run(initial) == [initial |-> initial, step |-> "parsing", rev |-> 0, next |-> 1]

InFlight(r) == r.step \in {"parsing", "writing"}

InitWatch ==
    /\ config \in [watch : BOOLEAN, dryRun : BOOLEAN]
    /\ specFile \in {SpecContent(1, v) : v \in BOOLEAN}
    /\ outputDir = [p \in Range(GeneratedPaths) |-> 0]
    /\ runs = <<Run(TRUE)>>
    /\ watcher = [state |-> "none", seen |-> 1]
    /\ process = Running
    /\ pc = Unused /\ arg = Unused /\ result = Unused
    /\ types = Unused /\ circular = Unused /\ visitedTypes = Unused
    /\ op = Unused /\ detected = Unused
    /\ spec = Unused /\ applied = Unused /\ reapplied = Unused
    /\ doc = Unused /\ parsed = Unused /\ invoked = Unused

\* The variables of the other specifications.
otherVars == <<pc, types, circular, visitedTypes, op, detected, spec, applied,
               reapplied, doc, parsed, invoked, arg, result>>

\* The spec file is saved with new content.
EditSpec ==
    /\ process = Running
    /\ specFile.rev <= MaxEdits
    /\ \E v \in BOOLEAN : specFile' = SpecContent(specFile.rev + 1, v)
    /\ UNCHANGED <<config, outputDir, runs, watcher, process>>
    /\ UNCHANGED otherVars

\* runGenerate step 1: `await parseSpec(config.specPath, ...)` resolves with the
\* content the file has now; generateHooks follows, and with --dry-run the
\* function returns.
AwaitParseSpec ==
    \E i \in DOMAIN runs :
        /\ process = Running
        /\ runs[i].step = "parsing"
        /\ specFile.valid
        /\ runs' = [runs EXCEPT ![i] = [@ EXCEPT !.rev = specFile.rev,
                        !.step = IF config.dryRun THEN "done" ELSE "writing"]]
        /\ UNCHANGED <<config, specFile, outputDir, watcher, process>>
        /\ UNCHANGED otherVars

\* writeFiles: `await mkdir`, `await writeFile` of the next file; after the last
\* file runGenerate logs its summary and returns.
WriteFile ==
    \E i \in DOMAIN runs :
        /\ process = Running
        /\ runs[i].step = "writing"
        /\ outputDir' = [outputDir EXCEPT ![GeneratedPaths[runs[i].next]] = runs[i].rev]
        /\ runs' = [runs EXCEPT ![i] = [@ EXCEPT !.next = @ + 1,
                        !.step = IF runs[i].next = Len(GeneratedPaths) THEN "done" ELSE "writing"]]
        /\ UNCHANGED <<config, specFile, watcher, process>>
        /\ UNCHANGED otherVars

\* runGenerate rejects: parseSpec throws on an invalid spec, or writeFiles
\* throws FileWriteError.  The caller's catch block takes over.
Fail ==
    \E i \in DOMAIN runs :
        /\ process = Running
        /\ \/ runs[i].step = "parsing" /\ ~specFile.valid
           \/ runs[i].step = "writing"
        /\ runs' = [runs EXCEPT ![i] = [@ EXCEPT !.step = "failed"]]
        /\ process' = afterFailure(runs[i].initial)
        /\ UNCHANGED <<config, specFile, outputDir, watcher>>
        /\ UNCHANGED otherVars

\* The generate action after the initial runGenerate: `if (watch) await
\* startWatchMode(...)` opens the watcher and registers the handlers; without
\* --watch the action returns and the process ends.
StartWatchMode ==
    /\ process = Running
    /\ runs[1].step = "done"
    /\ watcher.state = "none"
    /\ IF config.watch
       THEN /\ watcher' = [state |-> "open", seen |-> specFile.rev]
            /\ UNCHANGED process
       ELSE /\ process' = Exited(0, "return")
            /\ UNCHANGED watcher
    /\ UNCHANGED <<config, specFile, outputDir, runs>>
    /\ UNCHANGED otherVars

\* watcher.on('change', ...): chokidar reports the edits it has not reported
\* yet, and the handler calls runGenerate(config).
OnChange ==
    /\ process = Running
    /\ watcher.state = "open"
    /\ watcher.seen < specFile.rev
    /\ watcher' = [watcher EXCEPT !.seen = specFile.rev]
    /\ runs' = Append(runs, Run(FALSE))
    /\ UNCHANGED <<config, specFile, outputDir, process>>
    /\ UNCHANGED otherVars

\* process.on('SIGINT', ...): watcher.close() and process.exit(0).  Before the
\* handler is registered the signal ends the process by default.
Sigint ==
    /\ process = Running
    /\ IF watcher.state = "open"
       THEN /\ watcher' = [watcher EXCEPT !.state = "closed"]
            /\ process' = Exited(0, "SIGINT")
       ELSE /\ process' = Exited(130, "SIGINT")
            /\ UNCHANGED watcher
    /\ UNCHANGED <<config, specFile, outputDir, runs>>
    /\ UNCHANGED otherVars

RunSteps == AwaitParseSpec \/ WriteFile \/ Fail

NextWatch ==
    \/ EditSpec
    \/ AwaitParseSpec
    \/ WriteFile
    \/ Fail
    \/ StartWatchMode
    \/ OnChange
    \/ Sigint

SpecWatch == InitWatch /\ [][NextWatch]_vars

\* The event loop delivers a change the watcher has to report, and carries on
\* the calls of runGenerate in flight.
SpecWatchLive == SpecWatch /\ WF_vars(OnChange) /\ WF_vars(RunSteps)


(***************************************************************************)
(* The graph normalizer with its visitedTypes Set made explicit            *)
(* (src/parsers/graphql-parser.ts)                                         *)
(*                                                                         *)
(* The conversions above take the Set as a parameter.  Here they take it   *)
(* and give it back: a conversion yields what it returned or that it       *)
(* threw, the Set as it left it, and the calls of convertObjectType and    *)
(* convertInputObjectType made, each with the Set on entry and on exit.    *)
(* What throws is the call stack running out below a conversion that has   *)
(* MaxNesting object conversions above it.                                 *)
(***************************************************************************)
\* Number of nested object conversions the call stack holds.
MaxNesting == 2

Returned(value, visited, calls) ==
    [threw |-> FALSE, value |-> value, visited |-> visited, calls |-> calls]
Threw(visited, calls) ==
    [threw |-> TRUE, value |-> "RangeError", visited |-> visited, calls |-> calls]

Call(name, entry, exit, threw) ==
    [name |-> name, entry |-> entry, exit |-> exit, threw |-> threw]

RECURSIVE convertInnerTypeTracked(_, _, _, _)
RECURSIVE convertObjectTypeTracked(_, _, _, _)
RECURSIVE convertFieldsTracked(_, _, _, _, _, _, _)
RECURSIVE convertVariantsTracked(_, _, _, _, _, _, _)

convertGraphQLTypeTracked(schema, graphqlType, visited, depth) ==
    LET r == convertInnerTypeTracked(schema,
                 IF isNonNullType(graphqlType) THEN graphqlType.ofType ELSE graphqlType,
                 visited, depth)
    IN  IF r.threw THEN r
        ELSE Returned([type |-> r.value, required |-> isNonNullType(graphqlType)],
                      r.visited, r.calls)

\* The loop over Object.entries(fields), from field i on.
convertFieldsTracked(schema, fields, i, visited, depth, properties, calls) ==
    IF i > Len(fields) THEN Returned(properties, visited, calls)
    ELSE LET r == convertGraphQLTypeTracked(schema, fields[i].value.type, visited, depth)
         IN  IF r.threw THEN Threw(r.visited, calls \cup r.calls)
             ELSE convertFieldsTracked(schema, fields, i + 1, r.visited, depth,
                      Append(properties,
                             ApiProperty(fields[i].key, r.value.type, r.value.required)),
                      calls \cup r.calls)

\* graphqlType.getTypes().map((t) => convertInnerType(t)), from variant i on.
convertVariantsTracked(schema, names, i, visited, depth, variants, calls) ==
    IF i > Len(names) THEN Returned(variants, visited, calls)
    ELSE LET r == convertInnerTypeTracked(schema, NamedType(names[i]), visited, depth)
         IN  IF r.threw THEN Threw(r.visited, calls \cup r.calls)
             ELSE convertVariantsTracked(schema, names, i + 1, r.visited, depth,
                      Append(variants, r.value), calls \cup r.calls)

\* Mutant of convertObjectTypeTracked: visitedTypes.delete(name) follows the
\* loop instead of standing in a finally block.
convertObjectTypeTracked_NoFinally(schema, objType, visited, depth) ==
    LET name == objType.name IN
    IF name \in visited
    THEN Returned(Ref(name), visited, {Call(name, visited, visited, FALSE)})
    ELSE LET entered == visited \cup {name}
             r == IF depth >= MaxNesting THEN Threw(entered, {})
                  ELSE convertFieldsTracked(schema, objType.fields, 1, entered, depth + 1,
                                            <<>>, {})
         IN  IF r.threw
             THEN Threw(r.visited, r.calls \cup {Call(name, visited, r.visited, TRUE)})
             ELSE Returned(ApiObject(r.value, Undefined, Some(name)), r.visited \ {name},
                           r.calls \cup {Call(name, visited, r.visited \ {name}, FALSE)})

\* convertObjectType and convertInputObjectType, which have the same body:
\* the guard, visitedTypes.add(name), the loop in `try`, and
\* visitedTypes.delete(name) in `finally`.
convertObjectTypeTracked(schema, objType, visited, depth) ==
    LET name == objType.name IN
    IF name \in visited
    THEN Returned(Ref(name), visited, {Call(name, visited, visited, FALSE)})
    ELSE LET entered == visited \cup {name}
             r == IF depth >= MaxNesting THEN Threw(entered, {})
                  ELSE convertFieldsTracked(schema, objType.fields, 1, entered, depth + 1,
                                            <<>>, {})
             left == r.visited \ {name}
         IN  IF r.threw
             THEN Threw(left, r.calls \cup {Call(name, visited, left, TRUE)})
             ELSE Returned(ApiObject(r.value, Undefined, Some(name)), left,
                           r.calls \cup {Call(name, visited, left, FALSE)})

convertInnerTypeTracked(schema, graphqlType, visited, depth) ==
    IF isListType(graphqlType)
    THEN LET r == convertInnerTypeTracked(schema,
                      IF isNonNullType(graphqlType.ofType)
                      THEN graphqlType.ofType.ofType ELSE graphqlType.ofType,
                      visited, depth)
         IN  IF r.threw THEN r ELSE Returned(Array(r.value), r.visited, r.calls)
    ELSE IF graphqlType.kind # "NAMED" THEN Returned(Primitive("unknown"), visited, {})
    ELSE LET def == Lookup(schema.typeMap, graphqlType.name) IN
         CASE def.kind = "SCALAR" -> Returned(mapScalarType(def.name), visited, {})
           [] def.kind = "ENUM" -> Returned(Enum(def.values, Some(def.name)), visited, {})
           [] def.kind = "UNION" ->
                LET r == convertVariantsTracked(schema, def.types, 1, visited, depth, <<>>, {})
                IN  IF r.threw THEN r ELSE Returned(Union(r.value), r.visited, r.calls)
           [] def.kind \in {"OBJECT", "INPUT_OBJECT"} ->
                convertObjectTypeTracked(schema, def, visited, depth)
           [] OTHER -> Returned(Primitive("unknown"), visited, {})

\* The conversions graphqlParser.parse starts, in the order it starts them:
\* per field of a root type the arguments (for queryParams, then again for the
\* request body) and the return type; then the registered types.
RECURSIVE Concat(_)
Concat(seqs) == IF seqs = <<>> THEN <<>> ELSE Head(seqs) \o Concat(Tail(seqs))

TypeJob(graphqlType) == [register |-> Undefined, type |-> graphqlType]
RegisterJob(name) == [register |-> Some(name), type |-> NamedType(name)]

FieldJobs(field) ==
    [i \in 1..Len(field.args) |-> TypeJob(field.args[i].type)]
    \o [i \in 1..Len(field.args) |-> TypeJob(field.args[i].type)]
    \o <<TypeJob(field.type)>>

RootJobs(schema, rootType) ==
    IF rootType = Undefined THEN <<>>
    ELSE LET fields == Lookup(schema.typeMap, rootType.value).fields
         IN  Concat([i \in 1..Len(fields) |-> FieldJobs(fields[i].value)])

TopLevelJobs(schema) ==
    RootJobs(schema, schema.queryType)
    \o RootJobs(schema, schema.mutationType)
    \o RootJobs(schema, schema.subscriptionType)
    \o LET kept == SelectSeq(schema.typeMap, LAMBDA e : Registered(schema, e))
       IN  [i \in 1..Len(kept) |-> RegisterJob(kept[i].key)]

\* The conversions from job i on: `entries` collects the Set each one found,
\* `registry` what extractNamedTypes has stored.
RECURSIVE runJobs(_, _, _, _, _, _, _)
runJobs(schema, jobs, i, visited, entries, registry, calls) ==
    IF i > Len(jobs)
    THEN [threw |-> FALSE, visited |-> visited, entries |-> entries,
          types |-> registry, calls |-> calls]
    ELSE LET r == convertGraphQLTypeTracked(schema, jobs[i].type, visited, 0)
             seen == Append(entries, visited)
         IN  IF r.threw
             THEN [threw |-> TRUE, visited |-> r.visited, entries |-> seen,
                   types |-> registry, calls |-> calls \cup r.calls]
             ELSE runJobs(schema, jobs, i + 1, r.visited, seen,
                      IF jobs[i].register = Undefined THEN registry
                      ELSE Append(registry, [name |-> jobs[i].register.value,
                                             type |-> r.value.type]),
                      calls \cup r.calls)

\* graphqlParser.parse on a built schema: visitedTypes.clear(), the
\* conversions, and visitedTypes.clear() again when none has thrown.
parseTracked(schema, visited) ==
    LET r == runJobs(schema, TopLevelJobs(schema), 1, {}, <<>>, <<>>, {})
    IN  IF r.threw THEN r ELSE [r EXCEPT !.visited = {}]

\* The schemas parsed: the object types A and B and the input object In refer
\* to a scalar, to themselves, to each other or to the query root.
TrackedQueryFields ==
    {<<Entry("user", Field(NamedType("A"), <<Argument("id", NonNull(NamedType("ID")))>>))>>,
     <<Entry("items", Field(ListOf(NonNull(NamedType("B"))),
                            <<Argument("filter", NamedType("In"))>>))>>,
     <<Entry("user", Field(NamedType("AB"), <<>>)),
       Entry("name", Field(NamedType("String"), <<>>))>>}

TrackedSchemas ==
    {GraphSchema(qf, <<>>, <<>>, aType, bType, inType) :
        qf \in TrackedQueryFields, aType \in ObjectFieldTypes,
        bType \in ObjectFieldTypes, inType \in InputFieldTypes}

\* The module is loaded: visitedTypes = new Set().
InitVisited ==
    /\ pc = 0
    /\ visitedTypes = {}
    /\ arg = Unused /\ result = Unused
    /\ types = Unused /\ circular = Unused
    /\ op = Unused /\ detected = Unused
    /\ spec = Unused /\ applied = Unused /\ reapplied = Unused
    /\ doc = Unused /\ parsed = Unused /\ invoked = Unused
    /\ NoWatch

\* await graphqlParser.parse(introspection of a schema); pc counts the calls.
ParseTracked ==
    /\ pc < MaxCalls
    /\ \E schema \in TrackedSchemas :
          /\ arg' = schema
          /\ result' = parseTracked(schema, visitedTypes)
          /\ visitedTypes' = parseTracked(schema, visitedTypes).visited
    /\ pc' = pc + 1
    /\ UNCHANGED <<watchVars, types, circular, op, detected, spec, applied, reapplied,
                   doc, parsed, invoked>>

NextVisited == ParseTracked

SpecVisited == InitVisited /\ [][NextVisited]_vars


(***************************************************************************)
(* Claims on cycle detection, checked under SpecCycle                      *)
(***************************************************************************)

\* C1: completeness -- every registered type name that lies on a reference
\* cycle of the registry is in the set detectCircularTypes returns.
C1_CycleDetectionComplete ==
    pc = "done" => CycleMembers(types) \subseteq circular

\* C2: soundness -- every name detectCircularTypes returns lies on a reference
\* cycle of the registry (so an acyclic registry yields the empty set and a ref
\* to an unregistered name reports nothing), and a registry whose only ref
\* edges between registered types are n -> m and m -> n reports exactly n and m.
C2_CycleDetectionSound ==
    pc = "done" =>
        /\ circular \subseteq CycleMembers(types)
        /\ (CycleMembers(types) = {} => circular = {})
        /\ \A n, m \in Range(Keys(types)) :
              (n # m /\ RefEdges(types) = {<<n, m>>, <<m, n>>}) => circular = {n, m}

\* C2 witness: a two-cycle A <-> B is reported while C refers to an
\* unregistered name and to nothing else.
C2_Witness ==
    /\ pc = "done"
    /\ RefEdges(types) = {<<"A", "B">>, <<"B", "A">>}
    /\ RefNames(Get(types, "C")) = {Missing}
    /\ circular = {"A", "B"}

(***************************************************************************)
(* Claims on applyPaginationDetection, checked under SpecApply             *)
(***************************************************************************)
OpIndices == 1..Len(spec.operations)

\* C3: applyPaginationDetection returns an operation that already carries
\* pagination info unchanged, and applying the pass to its own output leaves
\* the pagination of every operation as the first pass set it.
C3_ExistingPaginationKept ==
    /\ pc \in {"applied", "reapplied"} =>
          /\ Len(applied.operations) = Len(spec.operations)
          /\ \A i \in OpIndices :
                spec.operations[i].pagination # Undefined
                    => applied.operations[i] = spec.operations[i]
    /\ pc = "reapplied" =>
          /\ Len(reapplied.operations) = Len(applied.operations)
          /\ \A i \in OpIndices :
                reapplied.operations[i].pagination = applied.operations[i].pagination

\* C3 witness: after both passes, a GET operation kept caller-supplied info
\* that differs from what the heuristics detect for it, and another GET
\* operation was annotated by the first pass.
C3_Witness ==
    /\ pc = "reapplied"
    /\ \E i, j \in OpIndices :
          /\ spec.operations[i].method = "GET"
          /\ spec.operations[i].pagination = SuppliedPagination
          /\ detectPagination(spec.operations[i]) # Undefined
          /\ detectPagination(spec.operations[i]).strategy = "cursor"
          /\ reapplied.operations[i].pagination = SuppliedPagination
          /\ spec.operations[j].method = "GET"
          /\ spec.operations[j].pagination = Undefined
          /\ applied.operations[j].pagination # Undefined
          /\ reapplied.operations[j].pagination = applied.operations[j].pagination

\* C4: an operation whose method is neither GET nor QUERY has, after the pass,
\* exactly the pagination it had on input.
C4_WriteOperationsNeverPaginated ==
    pc \in {"applied", "reapplied"} =>
        \A i \in OpIndices :
            spec.operations[i].method \notin {"GET", "QUERY"}
                => applied.operations[i].pagination = spec.operations[i].pagination

\* C4 witness: a POST and a GET operation with the same cursor parameter and
\* response shape; the GET one is annotated and the POST one is not.
C4_Witness ==
    /\ pc = "applied"
    /\ \E i, j \in OpIndices :
          /\ spec.operations[i].method = "POST"
          /\ spec.operations[j].method = "GET"
          /\ spec.operations[i].queryParams = spec.operations[j].queryParams
          /\ spec.operations[i].response = spec.operations[j].response
          /\ spec.operations[i].pagination = Undefined
          /\ spec.operations[j].pagination = Undefined
          /\ applied.operations[i].pagination = Undefined
          /\ applied.operations[j].pagination # Undefined

(***************************************************************************)
(* Claims on detectPagination                                              *)
(***************************************************************************)
QNames == {op.queryParams[i].name : i \in 1..Len(op.queryParams)}

\* The name of the declared sequence `declared` that is among `present` and
\* has no earlier name of `declared` among `present`.
IsFirstDeclared(name, declared, present) ==
    \E i \in 1..Len(declared) :
        /\ declared[i] = name
        /\ name \in present
        /\ \A j \in 1..(i - 1) : declared[j] \notin present

AnyOf(declared, present) == Range(declared) \cap present # {}

\* C5 (SpecDetect): the strategies are tried in the order cursor, offset-limit,
\* page-number and the first that matches decides the result; pageParam is the
\* first name, in the declared order of the strategy's name set, that is among
\* the query parameters.
C5_StrategyPriority ==
    pc = "done" =>
        IF AnyOf(CURSOR_PARAM_NAMES, QNames)
        THEN /\ detected # Undefined
             /\ detected.strategy = "cursor"
             /\ IsFirstDeclared(detected.pageParam, CURSOR_PARAM_NAMES, QNames)
        ELSE IF AnyOf(OFFSET_PARAM_NAMES, QNames) /\ AnyOf(LIMIT_PARAM_NAMES, QNames)
        THEN /\ detected # Undefined
             /\ detected.strategy = "offset-limit"
             /\ IsFirstDeclared(detected.pageParam, OFFSET_PARAM_NAMES, QNames)
        ELSE IF AnyOf(PAGE_NUMBER_PARAM_NAMES, QNames)
        THEN /\ detected # Undefined
             /\ detected.strategy = "page-number"
             /\ IsFirstDeclared(detected.pageParam, PAGE_NUMBER_PARAM_NAMES, QNames)
        ELSE TRUE

\* C5 witness: `p` listed before `page`, with a limit and an offset-like
\* parameter absent: page-number with pageParam `page`.
C5_Witness ==
    /\ pc = "done"
    /\ Len(op.queryParams) = 2
    /\ op.queryParams[1].name = "p"
    /\ op.queryParams[2].name = "page"
    /\ detected # Undefined
    /\ detected.strategy = "page-number"
    /\ detected.pageParam = "page"

\* The operation without its offset-like query parameters.
WithoutOffsetParams(o) ==
    [o EXCEPT !.queryParams =
        SelectSeq(o.queryParams, LAMBDA q : q.name \notin Range(OFFSET_PARAM_NAMES))]

\* C6 (SpecDetect): with no limit-like query parameter the result is never
\* offset-limit; it is undefined when no cursor, page or limit name is among
\* the parameters; and the result is the one the operation gets without its
\* offset-like parameters.
C6_OffsetWithoutLimit ==
    (pc = "done" /\ ~AnyOf(LIMIT_PARAM_NAMES, QNames)) =>
        /\ detected = Undefined \/ detected.strategy # "offset-limit"
        /\ (~AnyOf(CURSOR_PARAM_NAMES, QNames) /\ ~AnyOf(PAGE_NUMBER_PARAM_NAMES, QNames))
              => detected = Undefined
        /\ detected = detectPagination(WithoutOffsetParams(op))

\* C6 witness: `offset` is the only query parameter, the response has a cursor
\* field and an items array, and nothing is detected.
C6_Witness ==
    /\ pc = "done"
    /\ QNames = {"offset"}
    /\ op.response.type = CursorResponse
    /\ detected = Undefined

\* The paths of the fields named in `fields` that are direct properties of the
\* object type, or properties of a direct property of object type named in
\* `containers`.
FieldPaths(type, fields, containers) ==
    {<<type.properties[i].name>> : i \in {k \in 1..Len(type.properties) : type.properties[k].name \in fields}}
    \cup UNION {
        {<<type.properties[i].name, type.properties[i].type.properties[n].name>>
            : n \in {k \in 1..Len(type.properties[i].type.properties) :
                        type.properties[i].type.properties[k].name \in fields}}
        : i \in {k \in 1..Len(type.properties) :
                    /\ type.properties[k].name \in containers
                    /\ type.properties[k].type.kind = "object"}}

FourContainers == {"pagination", "meta", "page_info", "pageInfo"}

NextPagePathAsClaimed(type, fields, pageParam, path) ==
    IF type.kind = "object" /\ FieldPaths(type, fields, FourContainers) # {}
    THEN path \in FieldPaths(type, fields, FourContainers)
    ELSE path = <<pageParam>>

ItemsPathAsClaimed(type, path) ==
    LET isItems(i) == type.properties[i].name \in Range(ITEMS_FIELDS)
                        /\ type.properties[i].type.kind = "array"
    IN  IF type.kind = "object" /\ \E i \in 1..Len(type.properties) : isItems(i)
        THEN \E i \in 1..Len(type.properties) :
                /\ isItems(i)
                /\ \A j \in 1..(i - 1) : ~isItems(j)
                /\ path = <<type.properties[i].name>>
        ELSE path = <<>>

\* C7 (SpecPaths): for the cursor strategy nextPagePath is the path of a cursor
\* response field, direct or inside a pagination / meta / page_info / pageInfo
\* object, and [pageParam] when there is none; itemsPath names the first direct
\* property that is an items field of array type, and is empty otherwise.
C7_CursorPaths ==
    (pc = "done" /\ detected # Undefined /\ detected.strategy = "cursor") =>
        /\ NextPagePathAsClaimed(op.response.type, Range(CURSOR_RESPONSE_FIELDS),
                                 detected.pageParam, detected.nextPagePath)
        /\ ItemsPathAsClaimed(op.response.type, detected.itemsPath)

\* C7 witness: the cursor is found inside pageInfo, after a page-count field
\* of the same object, and the items array is the second direct property.
C7_Witness ==
    /\ pc = "done"
    /\ detected # Undefined
    /\ detected.strategy = "cursor"
    /\ op.response.type.kind = "object"
    /\ Len(op.response.type.properties) = 2
    /\ op.response.type.properties[1].name = "pageInfo"
    /\ op.response.type.properties[1].type.kind = "object"
    /\ Len(op.response.type.properties[1].type.properties) = 2
    /\ op.response.type.properties[2].name = "data"
    /\ detected.nextPagePath = <<"pageInfo", "nextCursor">>
    /\ detected.itemsPath = <<"data">>

\* C8 (SpecPaths): for the page-number strategy nextPagePath is the path of a
\* page-count field, direct or inside a pagination / meta / page_info /
\* pageInfo object, and [pageParam] only when there is none.
C8_PageCountPaths ==
    (pc = "done" /\ detected # Undefined /\ detected.strategy = "page-number") =>
        NextPagePathAsClaimed(op.response.type, Range(PAGE_COUNT_FIELDS),
                              detected.pageParam, detected.nextPagePath)

NoStrategyMatches ==
    /\ ~AnyOf(CURSOR_PARAM_NAMES, QNames)
    /\ ~(AnyOf(OFFSET_PARAM_NAMES, QNames) /\ AnyOf(LIMIT_PARAM_NAMES, QNames))
    /\ ~AnyOf(PAGE_NUMBER_PARAM_NAMES, QNames)

HasFallbackShape(type) ==
    /\ type.kind = "object"
    /\ FieldPaths(type, Range(CURSOR_RESPONSE_FIELDS), FourContainers) # {}
    /\ \E i \in 1..Len(type.properties) :
          type.properties[i].name \in Range(ITEMS_FIELDS) /\ type.properties[i].type.kind = "array"

\* C9 (SpecPaths): when no strategy matched, the result is a cursor result
\* only if the response has a cursor field and an items array and a name of
\* the cursor-name set, else of the page-name set, is among the query
\* parameters: then pageParam is that name and the paths are the found ones;
\* in every other case the result is undefined.
C9_ShapeFallback ==
    (pc = "done" /\ NoStrategyMatches) =>
        IF /\ HasFallbackShape(op.response.type)
           /\ (AnyOf(CURSOR_PARAM_NAMES, QNames) \/ AnyOf(PAGE_NUMBER_PARAM_NAMES, QNames))
        THEN /\ detected # Undefined
             /\ detected.strategy = "cursor"
             /\ \/ IsFirstDeclared(detected.pageParam, CURSOR_PARAM_NAMES, QNames)
                \/ /\ ~AnyOf(CURSOR_PARAM_NAMES, QNames)
                   /\ IsFirstDeclared(detected.pageParam, PAGE_NUMBER_PARAM_NAMES, QNames)
             /\ detected.nextPagePath
                   \in FieldPaths(op.response.type, Range(CURSOR_RESPONSE_FIELDS), FourContainers)
             /\ ItemsPathAsClaimed(op.response.type, detected.itemsPath)
        ELSE detected = Undefined

\* C9 witness: the fallback is reached with a response that has a cursor field
\* and an items array, an offset-like parameter is present, and the result is
\* undefined.
C9_Witness ==
    /\ pc = "done"
    /\ NoStrategyMatches
    /\ HasFallbackShape(op.response.type)
    /\ QNames = {"skip"}
    /\ detected = Undefined

(***************************************************************************)
(* Claims on parseSpec, checked under SpecParse                            *)
(***************************************************************************)
\* The operation objects of a document, with their path and method.
DocOperations(d) ==
    {[path |-> d.paths[i].key, method |-> d.paths[i].value.operations[j].key,
      obj |-> d.paths[i].value.operations[j].value]
        : <<i, j>> \in {ij \in (1..Len(d.paths)) \X (1..2) :
                            ij[2] <= Len(d.paths[ij[1]].value.operations)}}

FromExtension(x) ==
    PaginationInfo(x.strategy, x.pageParam,
                   SplitOnDots(x.nextPagePath), SplitOnDots(x.itemsPath))

\* C10: when an OpenAPI operation carries an x-pagination extension, parseSpec
\* returns that operation with the PaginationInfo of the extension (strategy and
\* pageParam as given, nextPagePath and itemsPath split on dots), whatever the
\* heuristics would say of its query parameters.
C10_XPaginationHonoured ==
    (pc = "parsed" /\ openApiCanParse(doc)) =>
        \A d \in DocOperations(doc) :
            d.obj.xPagination # Undefined =>
                \E k \in 1..Len(parsed.operations) :
                    /\ parsed.operations[k].path = d.path
                    /\ parsed.operations[k].method = UpperCase(d.method)
                    /\ parsed.operations[k].pagination = FromExtension(d.obj.xPagination)

(***************************************************************************)
(* Claims on the dispatcher, checked under SpecDispatch                    *)
(***************************************************************************)
\* String.prototype.includes
Contains(str, sub) ==
    \E i \in 0..(Len(str) - Len(sub)) : Slice(str, i, i + Len(sub)) = sub

\* The preview of an object (its first five keys at most) or of a string (its
\* first 80 characters at most); Undefined for any other value.
PreviewOf(input) ==
    IF IsObject(input)
    THEN Some("[" \o JoinWith(SubSeq(input.keyOrder, 1,
                                     IF Len(input.keyOrder) < 5 THEN Len(input.keyOrder) ELSE 5),
                              ", ", 1) \o "]")
    ELSE IF IsString(input) THEN Some(Slice(input.value, 0, 80))
    ELSE Undefined

CarriesPreview(message, input) ==
    PreviewOf(input) # Undefined /\ Contains(message, PreviewOf(input).value)

\* The first parser of the fixed order whose predicate accepts the input.
FirstAccepting(resolved) ==
    IF openApiCanParse(resolved) THEN <<"openapi">>
    ELSE IF swaggerCanParse(resolved) THEN <<"swagger">>
    ELSE IF graphqlCanParse(resolved) THEN <<"graphql">>
    ELSE <<>>

\* The dispatch part of C11: the parser called is the first of OpenAPI 3.x,
\* Swagger 2.0, GraphQL that accepts the resolved input, it is the only one
\* called, and its result goes through pagination detection; when none
\* accepts, none is called and the outcome is a ParseError.
DispatchInOrder ==
    (pc = "parsed" /\ resolve(doc).ok) =>
        LET resolved == resolve(doc).value IN
        /\ invoked = FirstAccepting(resolved)
        /\ invoked # <<>> /\ "error" \notin DOMAIN parsed =>
              parsed = applyPaginationDetection(parse(invoked[1], resolved))
        /\ invoked = <<>> => "error" \in DOMAIN parsed /\ parsed.error = "ParseError"

\* C11: parseSpec hands the input to the first parser, in the order OpenAPI
\* 3.x, Swagger 2.0, GraphQL, whose predicate accepts it, to that one only, and
\* applies pagination detection to its result; when no predicate accepts the
\* input no parser is called and the ParseError message carries a preview of
\* the input: its first five keys at most, or its first 80 characters at most.
C11_DispatchOrPreview ==
    /\ DispatchInOrder
    /\ (pc = "parsed" /\ resolve(doc).ok /\ FirstAccepting(resolve(doc).value) = <<>>) =>
          \/ CarriesPreview(parsed.message, doc)
          \/ CarriesPreview(parsed.message, resolve(doc).value)

(***************************************************************************)
(* Claims on schema conversion                                             *)
(***************************************************************************)
ScalarKeywords == {"string", "number", "integer", "boolean"}

\* The priority order, as a relation between a schema and its conversion.
ConvertedByPriority(normalizer, schema, type) ==
    IF schema = Undefined THEN type = Primitive("unknown")
    ELSE IF NonEmpty(schema.oneOf) \/ NonEmpty(schema.anyOf) THEN type.kind = "union"
    ELSE IF NonEmpty(schema.allOf)
    THEN type = convertSchemaOf(normalizer, mergeAllOfOf(normalizer, NonRefs(schema.allOf.value)))
    ELSE IF NonEmpty(schema.enum) THEN type.kind = "enum" /\ type.values = schema.enum.value
    ELSE IF schema.type = "array" THEN type.kind = "array"
    ELSE IF \/ schema.type = "object"
            \/ schema.properties # Undefined
            \/ (schema.type = "" /\ Truthy(schema.additionalProperties))
    THEN type.kind = "object"
    ELSE IF schema.type \in ScalarKeywords
    THEN type.kind = "primitive" /\ type.type = schema.type
    ELSE type = Primitive("unknown")

\* C12: both REST parsers convert a schema by the same priority order, first
\* match wins: oneOf/anyOf gives a union, else allOf the conversion of the
\* merged schema, else enum an enum, else an array, else an object, else a
\* scalar keyword a primitive, else primitive unknown; a missing or
\* unrecognisable schema gives primitive unknown.
C12_SchemaPriority ==
    pc = "converted" => ConvertedByPriority(arg.normalizer, arg.schema, result)

\* The same for the Swagger 2.0 parser alone.
SwaggerSchemaPriority ==
    (pc = "converted" /\ arg.normalizer = "swagger") =>
        ConvertedByPriority(arg.normalizer, arg.schema, result)

\* The same for the OpenAPI 3.x parser on schemas that are not nullable.
OpenApiSchemaPriority ==
    (pc = "converted" /\ arg.normalizer = "openapi" /\ arg.schema # Undefined
        /\ ~arg.schema.nullable) =>
        ConvertedByPriority(arg.normalizer, arg.schema, result)

\* The component schemas of an allOf composition that are not references.
ComponentsOf(schema) == NonRefs(schema.allOf.value)

PropertyNamesOf(component) ==
    IF component.properties = Undefined THEN <<>> ELSE EntryKeys(component.properties.value)
RequiredOf(component) ==
    IF component.required = Undefined THEN {} ELSE Range(component.required.value)

RECURSIVE Dedupe(_, _)
\* A list without its repetitions, each element at its first position.
Dedupe(list, seen) ==
    IF Len(list) = 0 THEN <<>>
    ELSE IF Head(list) \in seen THEN Dedupe(Tail(list), seen)
    ELSE <<Head(list)>> \o Dedupe(Tail(list), seen \cup {Head(list)})

\* Property names in the order of their first declaration.
FirstDeclared(components) ==
    Dedupe(JoinAll([i \in 1..Len(components) |-> PropertyNamesOf(components[i])], 1), {})

\* The last component that declares the property.
LastDeclaring(components, name) ==
    components[CHOOSE i \in 1..Len(components) :
                  /\ name \in Range(PropertyNamesOf(components[i]))
                  /\ \A j \in (i + 1)..Len(components) :
                        name \notin Range(PropertyNamesOf(components[j]))]

\* C13: in the object converted from an allOf composition a property is
\* required exactly when its name is in the union of the components' required
\* lists; each property has the schema of the last component that declares it
\* and the position of its first declaration.
C13_AllOfMerge ==
    (pc = "converted" /\ NonEmpty(arg.schema.allOf)) =>
        LET cs == ComponentsOf(arg.schema)
            names == FirstDeclared(cs)
        IN  /\ result.kind = "object"
            /\ [i \in 1..Len(result.properties) |-> result.properties[i].name] = names
            /\ \A i \in 1..Len(result.properties) :
                  LET q == result.properties[i] IN
                  /\ q.required <=> \E k \in 1..Len(cs) : q.name \in RequiredOf(cs[k])
                  /\ q.type = convertSchemaOf(arg.normalizer,
                                              Lookup(LastDeclaring(cs, q.name).properties.value,
                                                     q.name))

\* Two components declare `a` with different schemas, the first has `a` before
\* `b`, and only the second requires `a`.
C13_Witness ==
    /\ pc = "converted" /\ NonEmpty(arg.schema.allOf)
    /\ Len(arg.schema.allOf.value) = 2
    /\ ~isRef(arg.schema.allOf.value[1]) /\ ~isRef(arg.schema.allOf.value[2])
    /\ arg.schema.allOf.value[1].properties = Some(<<Entry("a", StringSchema), Entry("b", IntegerSchema)>>)
    /\ arg.schema.allOf.value[1].required = Undefined
    /\ arg.schema.allOf.value[2].properties = Some(<<Entry("a", IntegerSchema)>>)
    /\ arg.schema.allOf.value[2].required = Some(<<"a">>)
    /\ result.properties = <<ApiProperty("a", Primitive("integer"), TRUE),
                             ApiProperty("b", Primitive("integer"), FALSE)>>

SameKey(p, q) == p.in = q.in /\ p.name = q.name

NoDuplicateKeys(params) ==
    \A i, j \in 1..Len(params) : SameKey(params[i], params[j]) => i = j

\* The path-level parameters no operation-level parameter overrides.
Survivors(pathParams, opParams) ==
    SelectSeq(pathParams, LAMBDA p : \A j \in 1..Len(opParams) : ~SameKey(p, opParams[j]))

\* C14: the merged list is the path-level parameters whose (location, name) no
\* operation-level parameter has, followed by every operation-level parameter;
\* when neither list repeats a key, neither does the merged list.
C14_MergeParameters ==
    pc = "merged" =>
        /\ result = Survivors(arg.pathParams, arg.opParams) \o arg.opParams
        /\ (NoDuplicateKeys(arg.pathParams) /\ NoDuplicateKeys(arg.opParams))
              => NoDuplicateKeys(result)

\* An operation-level parameter overrides the path-level one with its key,
\* and a path-level parameter of the same name in another location survives.
C14_Witness ==
    /\ pc = "merged"
    /\ Len(arg.pathParams) = 2 /\ Len(arg.opParams) = 1
    /\ arg.pathParams[1].name = "id" /\ arg.pathParams[1].in = "path"
    /\ SameKey(arg.pathParams[2], arg.opParams[1])
    /\ arg.pathParams[2] # arg.opParams[1]
    /\ arg.opParams[1].name = "id" /\ arg.opParams[1].in = "query"
    /\ result = <<arg.pathParams[1], arg.opParams[1]>>

\* The operationIds of a parsed Spec, in the order of its operations.
OperationIds(apiSpec) == [i \in 1..Len(apiSpec.operations) |-> apiSpec.operations[i].operationId]

UniqueOperationIds(apiSpec) ==
    \A i, j \in 1..Len(apiSpec.operations) :
        apiSpec.operations[i].operationId = apiSpec.operations[j].operationId => i = j

\* C15: no two operations of a parsed Spec have the same operationId.
C15_OperationIdUnique ==
    (pc = "parsed" /\ "operations" \in DOMAIN parsed) => UniqueOperationIds(parsed)

\* The keys of a parsed Spec's named-type registry.
TypeNames(apiSpec) == {apiSpec.types[i].name : i \in 1..Len(apiSpec.types)}

ParamRefs(params) == UNION {RefNames(params[i].type) : i \in 1..Len(params)}

\* The ref names in an operation's parameter, request-body and response types.
OperationRefs(operation) ==
    ParamRefs(operation.pathParams) \cup ParamRefs(operation.queryParams)
    \cup ParamRefs(operation.headerParams)
    \cup (IF operation.requestBody = Undefined THEN {} ELSE RefNames(operation.requestBody.type))
    \cup RefNames(operation.response.type)

\* The ref names anywhere in a parsed Spec.
SpecRefs(apiSpec) ==
    UNION {RefNames(apiSpec.types[i].type) : i \in 1..Len(apiSpec.types)}
    \cup UNION {OperationRefs(apiSpec.operations[i]) : i \in 1..Len(apiSpec.operations)}

\* C16: every ref in the registry or in an operation's types names a key of
\* the parsed Spec's types.
C16_RefsResolve ==
    (pc = "parsed" /\ "operations" \in DOMAIN parsed) => SpecRefs(parsed) \subseteq TypeNames(parsed)

\* No type of the schema refers to a root type.
NoRootReferences(schema) ==
    \A i \in 1..Len(schema.typeMap) :
        \A k \in 1..Len(schema.typeMap[i].value.fields) :
            LET t == schema.typeMap[i].value.fields[k].value.type
            IN  t.kind = "NAMED" => t.name \notin RootTypes(schema)

\* Refs resolve in the Specs of the schemas in which no field returns a root type.
RefsResolveWithoutRootReferences ==
    (pc = "parsed" /\ "operations" \in DOMAIN parsed /\ NoRootReferences(doc["__schema"]))
        => SpecRefs(parsed) \subseteq TypeNames(parsed)

Max(S) == CHOOSE x \in S : \A y \in S : y <= x

RECURSIVE WellNested(_, _)
\* No named object is expanded inside its own expansion, and every stub names
\* a type whose expansion encloses it.
WellNested(type, enclosing) ==
    CASE type.kind = "ref" -> type.name \in enclosing
      [] type.kind = "object" ->
            LET inside == IF type.name = Undefined THEN enclosing
                          ELSE enclosing \cup {type.name.value}
            IN  /\ type.name # Undefined => type.name.value \notin enclosing
                /\ \A i \in 1..Len(type.properties) : WellNested(type.properties[i].type, inside)
      [] type.kind = "array" -> WellNested(type.items, enclosing)
      [] type.kind = "union" ->
            \A i \in 1..Len(type.variants) : WellNested(type.variants[i], enclosing)
      [] OTHER -> TRUE

RECURSIVE NestingDepth(_)
\* The number of named objects nested in one another.
NestingDepth(type) ==
    CASE type.kind = "object" ->
            (IF type.name = Undefined THEN 0 ELSE 1)
            + Max({0} \cup {NestingDepth(type.properties[i].type) : i \in 1..Len(type.properties)})
      [] type.kind = "array" -> NestingDepth(type.items)
      [] type.kind = "union" ->
            Max({0} \cup {NestingDepth(type.variants[i]) : i \in 1..Len(type.variants)})
      [] OTHER -> 0

\* The types a parsed Spec holds: registry entries, parameter, request-body
\* and response types.
ConvertedTypes(apiSpec) ==
    {apiSpec.types[i].type : i \in 1..Len(apiSpec.types)}
    \cup UNION {LET operation == apiSpec.operations[i] IN
                {operation.queryParams[k].type : k \in 1..Len(operation.queryParams)}
                \cup (IF operation.requestBody = Undefined THEN {}
                      ELSE {operation.requestBody.type})
                \cup {operation.response.type}
                : i \in 1..Len(apiSpec.operations)}

\* The object and input-object types of a schema.
ObjectTypeCount(schema) ==
    Cardinality({i \in 1..Len(schema.typeMap) :
                    schema.typeMap[i].value.kind \in {"OBJECT", "INPUT_OBJECT"}})

\* C17: the conversion of every graph schema ends; in the converted types no
\* named type is expanded inside its own expansion, a stub ref{name} stands
\* exactly where its type is in progress, and the nesting depth is at most the
\* number of object and input-object types of the schema.
C17_ConversionBounded ==
    (pc = "parsed" /\ "operations" \in DOMAIN parsed) =>
        \A type \in ConvertedTypes(parsed) :
            /\ WellNested(type, {})
            /\ NestingDepth(type) <= ObjectTypeCount(doc["__schema"])

\* A self-referential input object and two mutually recursive object types:
\* In { self: In }, A { b: B }, B { a: A }.
C17_Witness ==
    /\ pc = "parsed" /\ "operations" \in DOMAIN parsed
    /\ \E i \in 1..Len(parsed.types) :
          /\ parsed.types[i].name = "In"
          /\ parsed.types[i].type =
                ApiObject(<<ApiProperty("self", Ref("In"), FALSE)>>, Undefined, Some("In"))
    /\ \E i \in 1..Len(parsed.types) :
          /\ parsed.types[i].name = "A"
          /\ parsed.types[i].type.properties[1].type =
                ApiObject(<<ApiProperty("a", Ref("A"), FALSE)>>, Undefined, Some("B"))

\* What a call returns or throws when it is the first call made in a process:
\* both tracking Sets are as the modules create them, empty.
Alone(call) ==
    IF call.kind = "parse" THEN graphqlParserParse(call.input, {}).outcome
    ELSE emitZodSchemas(call.input, {}).outcome

\* C18: in whatever order the calls of graphqlParser.parse and emitZodSchemas
\* are made, each returns or throws what it would alone, so no call sees a
\* tracking entry of another; the visited-type Set is empty between calls.
C18_TrackingLocal ==
    /\ visitedTypes = {}
    /\ \A c \in DOMAIN pc : pc[c] = "done" => result[c] = Alone(arg[c])

\* The first call threw and left its circular types A and B behind; the second
\* call, made after it, emits the ref to A of another spec without z.lazy.
C18_Witness ==
    /\ Len(arg) = 2 /\ pc[1] = "done" /\ pc[2] = "done"
    /\ arg[1].kind = "emit" /\ arg[1].input.types = CircularRegistry
    /\ result[1] = [threw |-> "TypeError"]
    /\ arg[2].kind = "emit" /\ arg[2].input.types = PlainRegistry
    /\ "returned" \in DOMAIN result[2]
    /\ Contains(result[2].returned, "a: aSchema.optional(),")
    /\ circular = {}

\* The fields of a root type of the schema, each with the method and the tag
\* of its root; none when the schema has no such root.
RootFields(schema, root, method, tag) ==
    IF root = Undefined THEN <<>>
    ELSE LET fields == Lookup(schema.typeMap, root.value).fields
         IN  [i \in 1..Len(fields) |->
                 [name |-> fields[i].key, args |-> fields[i].value.args,
                  method |-> method, tag |-> tag]]

AllRootFields(schema) ==
    RootFields(schema, schema.queryType, "QUERY", "queries")
    \o RootFields(schema, schema.mutationType, "MUTATION", "mutations")
    \o RootFields(schema, schema.subscriptionType, "SUBSCRIPTION", "subscriptions")

\* The operation has the shape the field prescribes.
OperationOfField(operation, field) ==
    /\ operation.method = field.method
    /\ operation.tags = <<field.tag>>
    /\ operation.path = field.name /\ operation.operationId = field.name
    /\ operation.pathParams = <<>> /\ operation.headerParams = <<>>
    /\ [k \in 1..Len(operation.queryParams) |-> operation.queryParams[k].name]
          = [k \in 1..Len(field.args) |-> field.args[k].name]
    /\ (operation.requestBody # Undefined) <=> Len(field.args) > 0
    /\ operation.requestBody # Undefined =>
          /\ operation.requestBody.type.kind = "object"
          /\ [k \in 1..Len(operation.requestBody.type.properties) |->
                 operation.requestBody.type.properties[k].name]
                = [k \in 1..Len(field.args) |-> field.args[k].name]

\* C19: the operations of a graph Spec are, in the order queries, mutations,
\* subscriptions, one per root field: method and single tag of the root, path
\* and operationId the field name, no path or header parameters, one query
\* parameter per argument, and a request body exactly when there are
\* arguments, an object with one property per argument.
C19_GraphOperations ==
    (pc = "parsed" /\ "operations" \in DOMAIN parsed) =>
        LET fields == AllRootFields(doc["__schema"]) IN
        /\ Len(parsed.operations) = Len(fields)
        /\ \A i \in 1..Len(fields) : OperationOfField(parsed.operations[i], fields[i])

\* Two queries, one with two arguments and one without, a mutation and a
\* subscription.
C19_Witness ==
    /\ pc = "parsed" /\ "operations" \in DOMAIN parsed
    /\ Len(parsed.operations) = 4
    /\ [i \in 1..4 |-> parsed.operations[i].method] = <<"QUERY", "QUERY", "MUTATION", "SUBSCRIPTION">>
    /\ Len(parsed.operations[1].queryParams) = 2 /\ parsed.operations[1].requestBody # Undefined
    /\ Len(parsed.operations[2].queryParams) = 0 /\ parsed.operations[2].requestBody = Undefined
    /\ parsed.operations[3].operationId = "create"

\* The GET and QUERY operations.
ReadOperations(operations) == SelectSeq(operations, LAMBDA o : o.method \in {"GET", "QUERY"})

\* The resources of the read operations in the order of their first appearance.
ResourcesOf(operations) ==
    LET reads == ReadOperations(operations)
    IN  Dedupe([i \in 1..Len(reads) |-> extractResource(reads[i].path)], {})

\* The factories are those the claim describes.
FactoriesAsClaimed(operations, factories) ==
    LET reads == ReadOperations(operations)
        resources == ResourcesOf(operations)
    IN  /\ Len(factories) = Len(resources)
        /\ \A k \in 1..Len(resources) :
              /\ factories[k].rootKey = <<resources[k]>>
              /\ factories[k].hasDetail <=>
                    \E i \in 1..Len(reads) : /\ extractResource(reads[i].path) = resources[k]
                                             /\ isDetailEndpoint(reads[i].path)
              /\ factories[k].hasList <=>
                    \E i \in 1..Len(reads) : /\ extractResource(reads[i].path) = resources[k]
                                             /\ ~isDetailEndpoint(reads[i].path)

\* C20: deriveCacheKeyFactories returns one factory per distinct resource of the
\* GET and QUERY operations, in order of first appearance, with rootKey
\* [resource], hasDetail and hasList as the detail and list endpoints of the
\* resource say; other operations count for nothing.
C20_CacheKeyFactories ==
    pc = "derived" =>
        /\ "returned" \in DOMAIN result
        /\ FactoriesAsClaimed(arg, result.returned)

\* The factories are as described whenever the function returns.
FactoriesWhenReturned ==
    (pc = "derived" /\ "returned" \in DOMAIN result) => FactoriesAsClaimed(arg, result.returned)

\* The function returns unless a read operation's resource has no letter or digit.
ReturnsForNamedResources ==
    pc = "derived" =>
        ("threw" \in DOMAIN result
            <=> \E i \in 1..Len(arg) : /\ arg[i].method \in {"GET", "QUERY"}
                                       /\ extractResource(arg[i].path) = "_")

\* `api`, or `v` followed by digits, in either case.
IsApiOrVersion(seg) ==
    \/ ToLowerCase(seg) = "api"
    \/ /\ Len(seg) >= 2 /\ CharAt(seg, 1) \in {"v", "V"}
       /\ \A i \in 2..Len(seg) : CharAt(seg, i) \in Digits

\* The positions of the segments that are neither empty nor placeholders, and
\* of those among them that are neither `api` nor a version token.
NamedPositions(raw) == {i \in 1..Len(raw) : raw[i] # "" /\ CharAt(raw[i], 1) # "{"}
RemainingPositions(raw) == {i \in NamedPositions(raw) : ~IsApiOrVersion(raw[i])}

\* C21: extractResource returns the last segment that is not empty, not a
\* placeholder, not `api` and not a version token; when there is none, the
\* last segment that is not empty and not a placeholder; when there is none
\* either, `unknown`.  It never returns the empty string.
C21_ExtractResource ==
    pc = "extracted" =>
        LET raw == Split(arg, "/") IN
        /\ result # ""
        /\ result = IF RemainingPositions(raw) # {} THEN raw[Max(RemainingPositions(raw))]
                    ELSE IF NamedPositions(raw) # {} THEN raw[Max(NamedPositions(raw))]
                    ELSE "unknown"

\* A path of prefixes and a placeholder only.
C21_Witness ==
    /\ pc = "extracted"
    /\ arg = "/API/V22/{id}"
    /\ result = "V22"

\* The type that keeps the place of a schema position: a ref for a reference
\* object, an array of it for an array, the converted schema otherwise.
PositionKept(normalizer, schema) ==
    IF isRef(schema) THEN Ref(schema.ref)
    ELSE IF schema.type = "array" /\ schema.items # Undefined /\ isRef(schema.items)
    THEN Array(Ref(schema.items.ref))
    ELSE convertSchemaOf(normalizer, schema)

\* C22: the object converted from a named schema has every declared property,
\* in order; a property, array item or additionalProperties position that
\* holds a reference object is a ref to the named type.
C22_CircularStructureKept ==
    pc = "converted" =>
        LET declared == arg.schema.properties.value
            ap == arg.schema.additionalProperties
        IN  /\ result.kind = "object"
            /\ [i \in 1..Len(result.properties) |-> result.properties[i].name]
                  = EntryKeys(declared)
            /\ \A i \in 1..Len(result.properties) :
                  i <= Len(declared) =>
                      result.properties[i].type = PositionKept(arg.normalizer, declared[i].value)
            /\ (ap # Undefined /\ isRef(ap)) => result.additionalProperties = Ref(ap.ref)

\* The properties that hold no reference object, directly or as array items,
\* are all converted, in order.
OtherPropertiesKept ==
    pc = "converted" =>
        LET others == SelectSeq(arg.schema.properties.value, LAMBDA e : ~isRef(e.value))
        IN  /\ [i \in 1..Len(result.properties) |-> result.properties[i].name] = EntryKeys(others)
            /\ \A i \in 1..Len(others) :
                  ~(others[i].value.type = "array" /\ isRef(others[i].value.items)) =>
                      result.properties[i].type = convertSchemaOf(arg.normalizer, others[i].value)

\* The type with every ref emitted as the plain schema variable name.
PlainEmission(type) == emitZodType(type, {})

\* C23: emitZodType called outside an emitZodSchemas call emits a ref as the
\* plain schema variable name, whatever emitZodSchemas calls came before.
C23_RefPlainOutsideEmit ==
    \A c \in DOMAIN pc :
        (pc[c] = "done" /\ arg[c].kind = "type") =>
            result[c] = [returned |-> PlainEmission(arg[c].input)]

\* A ref is wrapped in z.lazy outside emitZodSchemas only after a call of
\* emitZodSchemas that threw.
PlainUnlessEarlierThrow ==
    \A c \in DOMAIN pc :
        (/\ pc[c] = "done" /\ arg[c].kind = "type"
         /\ \A d \in DOMAIN pc : (pc[d] = "done" /\ arg[d].kind = "emit") => "returned" \in DOMAIN result[d])
            => result[c] = [returned |-> PlainEmission(arg[c].input)]


(***************************************************************************)
(* Claim on the frame of applyPaginationDetection, checked under SpecApply *)
(***************************************************************************)
\* An operation with its pagination field taken out.
WithoutPagination(o) == [o EXCEPT !.pagination = Undefined]

\* The returned spec `out` against the spec `in` the pass was called on.
AnnotatedCopy(in, out) ==
    /\ out.title = in.title /\ out.baseUrl = in.baseUrl
    /\ out.version = in.version /\ out.types = in.types
    /\ Len(out.operations) = Len(in.operations)
    /\ \A i \in 1..Len(in.operations) :
          /\ WithoutPagination(out.operations[i]) = WithoutPagination(in.operations[i])
          /\ in.operations[i].pagination # Undefined
                => out.operations[i].pagination = in.operations[i].pagination

\* C24: applyPaginationDetection returns a spec with as many operations in the
\* same order, each equal to the input operation in every field but a
\* pagination that was added, with title, baseUrl, version and types carried
\* over; and the spec it was called on is the same after the call.
C24_InputNotMutated ==
    /\ [](/\ pc \in {"applied", "reapplied"} => AnnotatedCopy(spec, applied)
          /\ pc = "reapplied" => AnnotatedCopy(applied, reapplied))
    /\ [][spec' = spec /\ (pc = "applied" => applied' = applied)]_vars

\* C24 witness: the pass annotated one operation of two and the input spec
\* still has that operation without pagination.
C24_Witness ==
    /\ pc = "applied"
    /\ Len(spec.operations) = 2
    /\ spec.operations[1].pagination = Undefined
    /\ applied.operations[1].pagination # Undefined
    /\ applied.operations[2] = spec.operations[2]
    /\ spec.operations[2].method = "POST"

(***************************************************************************)
(* Claims on watch mode, checked under SpecWatchLive and SpecWatch         *)
(***************************************************************************)
Regenerations == {i \in DOMAIN runs : ~runs[i].initial}

Watching == process = Running /\ watcher.state = "open"

\* A step in which a regeneration fails.
RegenerationFails ==
    \E i \in Regenerations : runs[i].step # "failed" /\ runs'[i].step = "failed"

\* A step in which the watcher reports a change.
ChangeEvent == watcher.state = "open" /\ watcher'.seen # watcher.seen

\* C25: in watch mode a regeneration that fails leaves the process running and
\* the watcher open; every change event starts a regeneration, and a change
\* the watcher has to report is reported unless the process ends first; the
\* process ends only by a failure of the initial generation or by SIGINT.
C25_RegenerationFailureSurvived ==
    /\ [][RegenerationFails => process' = Running /\ watcher' = watcher /\ Watching]_vars
    /\ [][ChangeEvent => /\ Len(runs') = Len(runs) + 1
                         /\ runs'[Len(runs')] = Run(FALSE)]_vars
    /\ [](config.watch /\ process.state = "exited" => process.by \in {"generate", "SIGINT"})
    /\ \A rev \in 2..(MaxEdits + 1) :
          (Watching /\ specFile.rev = rev /\ watcher.seen < rev)
              ~> (process.state = "exited" \/ watcher.seen >= rev)

\* C25 witness: a regeneration failed, and a change event after it started
\* another one that has finished.
C25_Witness ==
    /\ Watching
    /\ \E i, j \in Regenerations :
          /\ i < j
          /\ runs[i].step = "failed"
          /\ runs[j].step = "done"

\* C30: once the regenerations started by change events have all finished, the
\* last of them with success, every file in the output directory is the one
\* generated from the spec content that last regeneration read.
C30_LatestRegenerationWins ==
    (/\ process = Running /\ ~config.dryRun
     /\ Regenerations # {}
     /\ \A i \in DOMAIN runs : ~InFlight(runs[i])
     /\ runs[Len(runs)].step = "done")
        => \A p \in DOMAIN outputDir : outputDir[p] = runs[Len(runs)].rev

\* With a single regeneration, which the watcher starts after the initial
\* generation has finished, the output is the one of that regeneration.
SingleRegenerationWins ==
    (/\ process = Running /\ ~config.dryRun
     /\ Cardinality(Regenerations) = 1
     /\ runs[Len(runs)].step = "done")
        => \A p \in DOMAIN outputDir : outputDir[p] = runs[Len(runs)].rev

(***************************************************************************)
(* Claim on the nullable shorthand, checked under SpecSchema               *)
(***************************************************************************)
\* A schema with `nullable: true` and a type, and nothing an earlier step of
\* convertSchema than the one for its type would take.
PlainNullable(schema) ==
    /\ schema # Undefined
    /\ schema.nullable /\ schema.type # ""
    /\ ~NonEmpty(schema.oneOf) /\ ~NonEmpty(schema.anyOf) /\ ~NonEmpty(schema.allOf)
    /\ ~NonEmpty(schema.enum)
    /\ schema.properties = Undefined

NullableUnion(schema) ==
    Union(<<convertSchema([schema EXCEPT !.nullable = FALSE]), Primitive("null")>>)

\* C26: the OpenAPI 3.x parser converts a schema with `nullable: true` and a
\* scalar type into the union of the converted type and primitive null.
C26_NullableScalarUnion ==
    (/\ pc = "converted" /\ arg.normalizer = "openapi"
     /\ PlainNullable(arg.schema)
     /\ arg.schema.type \in ScalarKeywords)
        => result = NullableUnion(arg.schema)

\* The union is what a nullable schema gives when its type is one no earlier
\* step converts.
NullableUnionForOtherTypes ==
    (/\ pc = "converted" /\ arg.normalizer = "openapi"
     /\ PlainNullable(arg.schema)
     /\ arg.schema.type \notin ScalarKeywords \cup {"array", "object"})
        => result = NullableUnion(arg.schema)

(***************************************************************************)
(* Claim on what detectPagination depends on, checked under SpecDetect     *)
(***************************************************************************)
\* The names include a cursor name, or a page name, or an offset-like and a
\* limit-like name.
NamesPaginate(names) ==
    \/ Range(CURSOR_PARAM_NAMES) \cap names # {}
    \/ Range(PAGE_NUMBER_PARAM_NAMES) \cap names # {}
    \/ /\ Range(OFFSET_PARAM_NAMES) \cap names # {}
       /\ Range(LIMIT_PARAM_NAMES) \cap names # {}

\* Two results are both undefined, or both defined with the same strategy and
\* the same pageParam.
SameDetection(a, b) ==
    IF a = Undefined THEN b = Undefined
    ELSE b # Undefined /\ b.strategy = a.strategy /\ b.pageParam = a.pageParam

Reversed(s) == [i \in 1..Len(s) |-> s[Len(s) + 1 - i]]

\* C27: detectPagination returns a result iff the query parameter names include
\* a cursor name, a page name, or an offset-like and a limit-like name; and an
\* operation with the same names, in another order and with any other
\* response type, gets a result with the same strategy and pageParam, or none
\* when this one gets none.
C27_DetectionByNamesOnly ==
    pc = "done" =>
        /\ (detected # Undefined) <=> NamesPaginate(queryParamNames(op))
        /\ \A r \in ResponseSamples :
              /\ SameDetection(detected,
                     detectPagination([op EXCEPT !.response = Response(r)]))
              /\ SameDetection(detected,
                     detectPagination([op EXCEPT !.response = Response(r),
                                                 !.queryParams = Reversed(@)]))

\* C27 witness: the response has a cursor field and an items field, the query
\* parameters are not paging ones, and nothing was detected.
C27_Witness ==
    /\ pc = "done"
    /\ detected = Undefined
    /\ op.queryParams # <<>>
    /\ findNextPagePath(op.response.type) # Undefined
    /\ findItemsPath(op.response.type) # Undefined

(***************************************************************************)
(* Claim on the visited-type Set, checked under SpecVisited                *)
(***************************************************************************)
\* C28: every call of convertObjectType and convertInputObjectType leaves the
\* visited-type Set as it found it, whether it returns or throws; the Set is
\* empty when graphqlParser.parse starts a conversion and after the call; and
\* the registry holds every object and input object type as kind object
\* with its own name.
C28_VisitedSetRestored ==
    pc > 0 =>
        /\ \A c \in result.calls : c.exit = c.entry
        /\ \A i \in 1..Len(result.entries) : result.entries[i] = {}
        /\ visitedTypes = {}
        /\ \A i \in 1..Len(result.types) :
              Lookup(arg.typeMap, result.types[i].name).kind \in {"OBJECT", "INPUT_OBJECT"}
                  => /\ result.types[i].type.kind = "object"
                     /\ result.types[i].type.name = Some(result.types[i].name)

\* With no conversion throwing, the registry is the one of the conversions
\* that take the Set as a parameter.
TrackedAsParsed ==
    (pc > 0 /\ ~result.threw) => result.types = extractNamedTypes(arg, {})

\* C28 witness: a conversion entered with other types in the Set threw, inside
\* a parse call that came after another, and one entered with its own name in
\* the Set returned a ref.
C28_Witness ==
    /\ pc = 2
    /\ result.threw
    /\ \E c \in result.calls : c.threw /\ c.entry # {}
    /\ \E c \in result.calls : ~c.threw /\ c.name \in c.entry

(***************************************************************************)
(* Claim on the refs of a graph Spec and cycle detection, under SpecGraph  *)
(***************************************************************************)
\* The ref names in the registry and in the response types of a parsed Spec.
RegistryAndResponseRefs(apiSpec) ==
    UNION {RefNames(apiSpec.types[i].type) : i \in 1..Len(apiSpec.types)}
    \cup UNION {RefNames(apiSpec.operations[i].response.type)
                    : i \in 1..Len(apiSpec.operations)}

\* C29: every type name a ref in the registry or in a response type of a
\* parsed graph Spec points to is among the names detectCircularTypes
\* reports for the Spec's registry.
C29_RefTargetsCircular ==
    (pc = "parsed" /\ "operations" \in DOMAIN parsed)
        => RegistryAndResponseRefs(parsed) \subseteq detectCircularTypes(parsed.types)

\* The same for the schemas in which no field returns a root type.
RefTargetsCircularWithoutRootReferences ==
    (pc = "parsed" /\ "operations" \in DOMAIN parsed /\ NoRootReferences(doc["__schema"]))
        => RegistryAndResponseRefs(parsed) \subseteq detectCircularTypes(parsed.types)

====
